---- MODULE Spec2Model ----
(***************************************************************************)
(* A model of the dockerpage dashboard (jameslloyd/dockerpage):            *)
(*   docker_client.py      the process-wide Docker client cache            *)
(*   docker_hosts.py       the host registry and the current host id       *)
(*   app_new.py            the dashboard request (index)                   *)
(*   api_routes.py         the bulk stats endpoint (api_container_stats)   *)
(*   container_formatter.py  format_container_info(_lightweight)           *)
(*                                                                         *)
(* Specifications:                                                         *)
(*   Spec       concurrent request threads calling get_docker_client and   *)
(*              switch_host against the shared cache                       *)
(*   SpecCache  one connector request at a time; profiles are updated and  *)
(*              daemons stop and start between requests                    *)
(*   SpecSeq    one dashboard request at a time: index                     *)
(*   SpecStats  api_container_stats: workers, queues, sequential joins     *)
(*   SpecFormat format_container_info's resource sampling of one container *)
(*   SpecCalc   the CPU / memory percentage arithmetic on stats snapshots  *)
(*   SpecRecord the record both formatters make of one container           *)
(*   SpecRegistry the host routes (add, update, delete, switch, test), one *)
(*              request at a time, with file reads and writes that may fail *)
(***************************************************************************)
EXTENDS Integers, Sequences, FiniteSets, TLC

VARIABLES
    docker_hosts_json,  \* docker_hosts.json: [hosts, current_host]
    current_host_id,    \* docker_hosts.py:13, the in-memory current host id
    session,            \* flask session['current_host'] of the client
    docker_client,      \* docker_client.py:14, the cached handle
    cached_host_id,     \* get_docker_client._cached_host_id
    thread,             \* per request thread: position and locals
    index,              \* app_new.py index(): the locals of the dashboard request
    bulk,               \* api_routes.py api_container_stats(): workers, queues, joins
    fmt,                \* container_formatter.py format_container_info: lines 160-224
    calc,               \* a stats snapshot and the figures both code paths derive
    rec,                \* one container and the records both formatters make of it
    daemon_down,        \* the host ids whose Docker daemon does not answer
    reg,                \* api_routes.py host routes: the request being answered
    test                \* docker_client.py test_docker_connection: worker, queue, wait

connVars == <<docker_hosts_json, current_host_id, session, docker_client,
              cached_host_id, thread>>

\* What the actions of each part leave alone.
outsideConn == <<index, bulk, fmt, calc, rec, daemon_down, reg, test>>
outsideIndex == <<bulk, fmt, calc, rec, daemon_down, reg, test>>
outsideBulk == <<connVars, index, fmt, calc, rec, daemon_down, reg, test>>
outsideFmt == <<connVars, index, bulk, calc, rec, daemon_down, reg, test>>
outsideCalc == <<connVars, index, bulk, fmt, rec, daemon_down, reg, test>>
outsideRec == <<connVars, index, bulk, fmt, calc, daemon_down, reg, test>>
outsideDaemon == <<connVars, index, bulk, fmt, calc, rec, reg, test>>
outsideReg == <<thread, index, bulk, fmt, calc, rec, daemon_down, test>>
outsideTest == <<connVars, index, bulk, fmt, calc, rec, daemon_down, reg>>

-----------------------------------------------------------------------------
(* Bounds *)

\* Number of request threads that run concurrently in Spec.
NumThreads == 2

Threads == 1..NumThreads

\* Largest number of containers a daemon lists in SpecSeq.
MaxContainers == 3

\* Largest number of running containers api_container_stats samples (SpecStats).
MaxRunning == 3

\* Largest value of a cumulative CPU counter or of a byte count in a snapshot.
MaxCounter == 2

\* Largest number of CPUs in a snapshot's percpu_usage list.
MaxCpus == 2

\* Largest number of container ports in a container's port map (SpecRecord).
MaxPorts == 2

-----------------------------------------------------------------------------
(* Values *)

\* Python's None for a host id.
NoId == "None"

\* Python's None for a client handle.  A handle records the profile id it was
\* connected for, the base_url it was connected to, and whether its
\* version()/info() round trip has succeeded.
None == [host |-> NoId, base_url |-> "", verified |-> FALSE]

\* The {} a lookup of a missing profile yields (hosts.get(host_id, {})).
NoConfig ==
    [name |-> "", host |-> "", tls_verify |-> FALSE, cert_path |-> "",
     default |-> FALSE]

\* load_docker_hosts: the default profile.
LocalProfile ==
    [name |-> "Local Docker", host |-> "unix:///var/run/docker.sock",
     tls_verify |-> FALSE, cert_path |-> "", default |-> TRUE]

\* A profile as add_host stores it: a remote TLS daemon.
RemoteProfile ==
    [name |-> "Remote", host |-> "tcp://10.0.0.2:2376",
     tls_verify |-> TRUE, cert_path |-> "/certs", default |-> FALSE]

\* load_docker_hosts: default_config, the registry of a fresh installation.
default_config ==
    [hosts |-> [h \in {"local"} |-> LocalProfile], current_host |-> "local"]

\* A registry file after add_host of the remote profile.
TwoHostConfig ==
    [hosts |-> [h \in {"local", "remote"} |->
                   IF h = "local" THEN LocalProfile ELSE RemoteProfile],
     current_host |-> "local"]

\* The registry files the process may find when it starts.
RegistryFiles == {default_config, TwoHostConfig}

\* Host ids a request may name: the registered ones and one that no registry holds.
RequestIds == {"local", "remote", "ghost"}

\* What the connection attempt of lines 52-75 can end in: success, a
\* docker.errors.DockerException, or any other Exception.
ConnectOutcomes == {"ok", "DockerException", "Exception"}

\* The message of the exception a failed attempt raises.
ErrorMessage(outcome) ==
    IF outcome = "DockerException" THEN "connection refused" ELSE "timeout"

NoLog == [error |-> "", address |-> ""]

\* A thread between requests.
IdleThread ==
    [pc |-> "idle", req |-> "", arg |-> NoId, host_id |-> NoId,
     cached |-> NoId, host_config |-> NoConfig, client |-> None,
     ret |-> None, returned |-> FALSE, raised |-> FALSE, log |-> NoLog,
     cfg |-> default_config, ok |-> FALSE]

-----------------------------------------------------------------------------
(* docker_hosts.py *)

\* load_docker_hosts: the content of docker_hosts.json.
load_docker_hosts == docker_hosts_json

\* hosts_config['hosts'].get(host_id, {})
HostConfigOf(cfg, host_id) ==
    IF host_id \in DOMAIN cfg.hosts THEN cfg.hosts[host_id] ELSE NoConfig

\* get_current_host_id: the value it returns; when the global is still None it
\* is taken from the session, else from the file, and stored in the global.
get_current_host_id ==
    IF current_host_id # NoId THEN current_host_id
    ELSE IF session # NoId THEN session
    ELSE load_docker_hosts.current_host

-----------------------------------------------------------------------------
(* docker_client.py: get_docker_client, one step per access to shared state *)

\* A request handler calls get_docker_client(arg); lines 27-28 resolve host_id.
get_docker_client_enter(t) ==
    /\ thread[t].pc = "gdc_enter"
    /\ LET hid == IF thread[t].arg = NoId THEN get_current_host_id
                  ELSE thread[t].arg
       IN /\ thread' = [thread EXCEPT ![t].host_id = hid, ![t].pc = "gdc_read_cached"]
          /\ current_host_id' = IF thread[t].arg = NoId THEN get_current_host_id
                                ELSE current_host_id
    /\ UNCHANGED outsideConn
    /\ UNCHANGED <<docker_hosts_json, session, docker_client, cached_host_id>>

\* line 31: current_cached_host = getattr(get_docker_client, '_cached_host_id', None)
get_docker_client_read_cached(t) ==
    /\ thread[t].pc = "gdc_read_cached"
    /\ thread' = [thread EXCEPT ![t].cached = cached_host_id, ![t].pc = "gdc_test"]
    /\ UNCHANGED outsideConn
    /\ UNCHANGED <<docker_hosts_json, current_host_id, session, docker_client,
                   cached_host_id>>

\* line 32: the cache is used when a client is cached and the id read at line 31
\* equals host_id.
CacheHit(client, cached, host_id) == client # None /\ cached = host_id

\* line 32: if docker_client and current_cached_host == host_id
get_docker_client_test(t) ==
    /\ thread[t].pc = "gdc_test"
    /\ thread' = [thread EXCEPT ![t].cached = NoId, ![t].pc =
                     IF CacheHit(docker_client, thread[t].cached, thread[t].host_id)
                     THEN "gdc_return_cached" ELSE "gdc_load"]
    /\ UNCHANGED outsideConn
    /\ UNCHANGED <<docker_hosts_json, current_host_id, session, docker_client,
                   cached_host_id>>

\* Where a thread continues when get_docker_client returns: the handlers that
\* go on with the client, or the end of the request.
AfterClient(req) == IF req = "index" THEN "index_client" ELSE "done"

\* line 33: return docker_client (the global is read again)
get_docker_client_return_cached(t) ==
    /\ thread[t].pc = "gdc_return_cached"
    /\ thread' = [thread EXCEPT ![t].ret = docker_client, ![t].returned = TRUE,
                                ![t].pc = AfterClient(thread[t].req)]
    /\ UNCHANGED outsideConn
    /\ UNCHANGED <<docker_hosts_json, current_host_id, session, docker_client,
                   cached_host_id>>

\* lines 35-40: load the registry, look the profile up; an unknown id is
\* logged and None is returned.
get_docker_client_load(t) ==
    /\ thread[t].pc = "gdc_load"
    /\ LET host_config == HostConfigOf(load_docker_hosts, thread[t].host_id)
       IN thread' =
            IF host_config = NoConfig
            THEN [thread EXCEPT ![t].ret = None, ![t].returned = TRUE,
                                ![t].log = [error |-> "Host configuration not found",
                                            address |-> ""],
                                ![t].pc = AfterClient(thread[t].req)]
            ELSE [thread EXCEPT ![t].host_config = host_config,
                                ![t].pc = "gdc_clear"]
    /\ UNCHANGED outsideConn
    /\ UNCHANGED <<docker_hosts_json, current_host_id, session, docker_client,
                   cached_host_id>>

\* line 50: docker_client = None
get_docker_client_clear(t) ==
    /\ thread[t].pc = "gdc_clear"
    /\ docker_client' = None
    /\ thread' = [thread EXCEPT ![t].pc = "gdc_connect"]
    /\ UNCHANGED outsideConn
    /\ UNCHANGED <<docker_hosts_json, current_host_id, session, cached_host_id>>

\* lines 57-71: the client object docker.DockerClient(base_url=docker_host, ...)
\* builds; nothing has been asked of the daemon yet.
NewClient(host_id, host_config) ==
    [host |-> host_id, base_url |-> host_config.host, verified |-> FALSE]

\* lines 74-75: version() and info() answered on this client.
Verified(client) == [client EXCEPT !.verified = TRUE]

\* Mutant of Accepted: the client is kept although the test of lines 74-75
\* raised a non-Docker exception.
AcceptedUntested(outcome) == outcome \in {"ok", "Exception"}

\* lines 74-83: the client is kept only when version() and info() answered.
Accepted(outcome) == outcome = "ok"

\* Mutant of Caught: only the first except clause (line 87) is there.
CaughtDockerOnly(outcome) == outcome = "DockerException"

\* lines 87-90: the except clauses catch DockerException and every other
\* Exception of the attempt.
Caught(outcome) == outcome \in {"DockerException", "Exception"}

\* lines 74-75: version() and info() can answer only when the daemon of the
\* host does.
Reachable(host_id) == host_id \notin daemon_down

\* lines 52-93: build the client and test it with version() and info().  On
\* success the verified client goes on to be stored; a failure is logged with the
\* message and docker_host, and None is returned.
get_docker_client_connect(t) ==
    /\ thread[t].pc = "gdc_connect"
    /\ \E outcome \in ConnectOutcomes :
          /\ outcome = "ok" => Reachable(thread[t].host_id)
          /\ LET new == NewClient(thread[t].host_id, thread[t].host_config)
                 client == IF outcome = "ok" THEN Verified(new) ELSE new
             IN thread' =
                  IF Accepted(outcome)
                  THEN [thread EXCEPT ![t].client = client,
                                      ![t].host_config = NoConfig,
                                      ![t].pc = "gdc_store"]
                  ELSE IF Caught(outcome)
                  THEN [thread EXCEPT ![t].host_config = NoConfig,
                                      ![t].ret = None, ![t].returned = TRUE,
                                      ![t].log = [error |-> ErrorMessage(outcome),
                                                  address |-> thread[t].host_config.host],
                                      ![t].pc = AfterClient(thread[t].req)]
                  ELSE [thread EXCEPT ![t].host_config = NoConfig,
                                      ![t].raised = TRUE, ![t].pc = "done"]
    /\ UNCHANGED outsideConn
    /\ UNCHANGED <<docker_hosts_json, current_host_id, session, docker_client,
                   cached_host_id>>

\* line 83: docker_client = client
get_docker_client_store(t) ==
    /\ thread[t].pc = "gdc_store"
    /\ docker_client' = thread[t].client
    /\ thread' = [thread EXCEPT ![t].pc = "gdc_store_id"]
    /\ UNCHANGED outsideConn
    /\ UNCHANGED <<docker_hosts_json, current_host_id, session, cached_host_id>>

\* lines 84-85: get_docker_client._cached_host_id = host_id; return client
get_docker_client_store_id(t) ==
    /\ thread[t].pc = "gdc_store_id"
    /\ cached_host_id' = thread[t].host_id
    /\ thread' = [thread EXCEPT ![t].ret = thread[t].client, ![t].returned = TRUE,
                                ![t].client = None,
                                ![t].pc = AfterClient(thread[t].req)]
    /\ UNCHANGED outsideConn
    /\ UNCHANGED <<docker_hosts_json, current_host_id, session, docker_client>>

get_docker_client(t) ==
    \/ get_docker_client_enter(t)
    \/ get_docker_client_read_cached(t)
    \/ get_docker_client_test(t)
    \/ get_docker_client_return_cached(t)
    \/ get_docker_client_load(t)
    \/ get_docker_client_clear(t)
    \/ get_docker_client_connect(t)
    \/ get_docker_client_store(t)
    \/ get_docker_client_store_id(t)

-----------------------------------------------------------------------------
(* docker_hosts.py: switch_host, one step per access to shared state *)

\* lines 198-201: load the registry; an unknown id is rejected.
switch_host_load(t) ==
    /\ thread[t].pc = "switch_load"
    /\ LET cfg == load_docker_hosts
       IN thread' =
            IF thread[t].arg \notin DOMAIN cfg.hosts
            THEN [thread EXCEPT ![t].ok = FALSE, ![t].pc = "done"]
            ELSE [thread EXCEPT ![t].cfg = [cfg EXCEPT !.current_host = thread[t].arg],
                                ![t].pc = "switch_save"]
    /\ UNCHANGED outsideConn
    /\ UNCHANGED <<docker_hosts_json, current_host_id, session, docker_client,
                   cached_host_id>>

\* lines 204-205: hosts_config['current_host'] = host_id; save_docker_hosts
switch_host_save(t) ==
    /\ thread[t].pc = "switch_save"
    /\ docker_hosts_json' = thread[t].cfg
    /\ thread' = [thread EXCEPT ![t].cfg = default_config, ![t].pc = "switch_set"]
    /\ UNCHANGED outsideConn
    /\ UNCHANGED <<current_host_id, session, docker_client, cached_host_id>>

\* set_current_host_id, lines 79-80: the global and the session
set_current_host_id_assign(t) ==
    /\ thread[t].pc = "switch_set"
    /\ current_host_id' = thread[t].arg
    /\ session' = thread[t].arg
    /\ thread' = [thread EXCEPT ![t].pc = "switch_clear"]
    /\ UNCHANGED outsideConn
    /\ UNCHANGED <<docker_hosts_json, docker_client, cached_host_id>>

\* Mutant of clear_docker_client: the cached handle is left in place.
clear_docker_client_skipped(t) ==
    /\ thread[t].pc = "switch_clear"
    /\ thread' = [thread EXCEPT ![t].ok = TRUE, ![t].pc = "done"]
    /\ UNCHANGED outsideConn
    /\ UNCHANGED <<docker_hosts_json, current_host_id, session, docker_client,
                   cached_host_id>>

\* set_current_host_id, lines 82-84: clear_docker_client() sets the cached
\* handle to None (and leaves _cached_host_id as it is); switch_host returns True.
clear_docker_client(t) ==
    /\ thread[t].pc = "switch_clear"
    /\ docker_client' = None
    /\ thread' = [thread EXCEPT ![t].ok = TRUE, ![t].pc = "done"]
    /\ UNCHANGED outsideConn
    /\ UNCHANGED <<docker_hosts_json, current_host_id, session, cached_host_id>>

switch_host(t) ==
    \/ switch_host_load(t)
    \/ switch_host_save(t)
    \/ set_current_host_id_assign(t)
    \/ clear_docker_client(t)

-----------------------------------------------------------------------------
(* Requests *)

\* A handler that obtains the client (api_containers, api_container_stats,
\* health, ...) starts: get_docker_client() or get_docker_client(host_id), the
\* host_id drawn from args.
StartClientRequest(t, args) ==
    /\ thread[t].pc = "idle"
    /\ \E arg \in args :
          thread' = [thread EXCEPT ![t] =
                        [IdleThread EXCEPT !.pc = "gdc_enter", !.req = "client",
                                           !.arg = arg]]
    /\ UNCHANGED outsideConn
    /\ UNCHANGED <<docker_hosts_json, current_host_id, session, docker_client,
                   cached_host_id>>

\* api_switch_host(host_id) starts.
StartSwitchRequest(t) ==
    /\ thread[t].pc = "idle"
    /\ \E arg \in RequestIds :
          thread' = [thread EXCEPT ![t] =
                        [IdleThread EXCEPT !.pc = "switch_load", !.req = "switch",
                                           !.arg = arg]]
    /\ UNCHANGED outsideConn
    /\ UNCHANGED <<docker_hosts_json, current_host_id, session, docker_client,
                   cached_host_id>>

\* The address a profile is moved to by update_host.
MovedAddress == "tcp://10.0.0.3:2376"

\* api_update_host(host_id) with host_data naming a new address, no TLS.
\* docker_hosts.py update_host, lines 142-164: an unknown id is rejected;
\* else name, host, tls_verify and cert_path of the profile are replaced and
\* the registry is saved.  Nothing else is touched.
update_host(t) ==
    /\ thread[t].pc = "idle"
    /\ \E host_id \in RequestIds :
          LET hosts_config == load_docker_hosts
              known == host_id \in DOMAIN hosts_config.hosts
              host_data == [name |-> "Moved", host |-> MovedAddress,
                            tls_verify |-> FALSE, cert_path |-> ""]
          IN /\ thread' = [thread EXCEPT ![t] =
                              [IdleThread EXCEPT !.pc = "done", !.req = "update",
                                                 !.arg = host_id, !.ok = known]]
             /\ docker_hosts_json' =
                   IF known
                   THEN [hosts_config EXCEPT
                           !.hosts[host_id].name = host_data.name,
                           !.hosts[host_id].host = host_data.host,
                           !.hosts[host_id].tls_verify = host_data.tls_verify,
                           !.hosts[host_id].cert_path = host_data.cert_path]
                   ELSE docker_hosts_json
    /\ UNCHANGED outsideConn
    /\ UNCHANGED <<current_host_id, session, docker_client, cached_host_id>>

\* The daemon of a host stops answering, or answers again, while no request
\* is being served.
DaemonChanges ==
    /\ \A t \in Threads : thread[t].pc = "idle"
    /\ \E host_id \in {"local", "remote"} :
          daemon_down' = IF host_id \in daemon_down
                         THEN daemon_down \ {host_id}
                         ELSE daemon_down \cup {host_id}
    /\ UNCHANGED outsideDaemon

\* The response is sent; the thread takes the next request.
Finish(t) ==
    /\ thread[t].pc = "done"
    /\ thread[t].req # "index"
    /\ thread' = [thread EXCEPT ![t] = IdleThread]
    /\ UNCHANGED outsideConn
    /\ UNCHANGED <<docker_hosts_json, current_host_id, session, docker_client,
                   cached_host_id>>

InitConn ==
    /\ docker_hosts_json \in RegistryFiles
    /\ current_host_id = NoId
    /\ session = NoId
    /\ docker_client = None
    /\ cached_host_id = NoId
    /\ thread = [t \in Threads |-> IdleThread]
    /\ daemon_down = {}

-----------------------------------------------------------------------------
(* container_formatter.py: the basic fields of a formatted record *)

\* The statuses containers.list reports that the dashboard has a bucket for,
\* and one it has none for.
NamedStatuses == {"running", "exited", "created", "paused"}
RawStatuses == NamedStatuses \cup {"restarting"}

\* A raw container record: its position in the list result as id, its status,
\* whether its basic attributes (image, attrs['Created'], attrs['State'])
\* can be read, and the exception reading them raises when they cannot (the
\* image of the container is gone: container.image raises ImageNotFound).
ContainerKinds ==
    {[status |-> s, readable |-> TRUE, failure |-> ""] : s \in RawStatuses}
        \cup {[status |-> "running", readable |-> FALSE,
               failure |-> "ImageNotFound"]}

ContainerLists ==
    UNION {{[i \in 1..n |-> [id |-> i, status |-> f[i].status,
                             readable |-> f[i].readable,
                             failure |-> f[i].failure]] :
               f \in [1..n -> ContainerKinds]} : n \in 0..MaxContainers}

\* Mutant of HandlerCatches: the handler is 'except KeyError'.
HandlerCatchesKeyError(failure) == failure = "KeyError"

\* lines 229 and 345: 'except Exception' catches whatever the try block
\* raised.
HandlerCatches(failure) == failure \in {"KeyError", "ImageNotFound"}

\* The exception of the basic attributes leaves the formatter.
FormatterRaises(container) ==
    ~container.readable /\ ~HandlerCatches(container.failure)

\* Mutant of FormatStatus: a status without a bucket is rewritten to 'other'.
FormatStatusCanonical(container) ==
    IF ~container.readable THEN "error"
    ELSE IF container.status \in NamedStatuses THEN container.status
    ELSE "other"

\* format_container_info lines 21-28 and format_container_info_lightweight
\* lines 245-253: 'status': container.status; lines 229-237 and 345-353: a
\* record that cannot be read becomes the record with status 'error'.
FormatStatus(container) ==
    IF container.readable THEN container.status ELSE "error"

\* The id and status of the record either formatter returns for a container.
format_container_info(container) ==
    [id |-> container.id, status |-> FormatStatus(container),
     error |-> IF container.readable THEN "" ELSE container.failure]

-----------------------------------------------------------------------------
(* app_new.py: index, the dashboard request of thread 1 *)

\* lines 64-70: containers_by_status
BucketKeys == {"running", "exited", "created", "paused", "other"}
EmptyBuckets == [b \in BucketKeys |-> <<>>]

NoStats == [total_containers |-> 0, running_containers |-> 0]
NoResponse ==
    [view |-> "", error |-> "", containers_by_status |-> EmptyBuckets,
     stats |-> NoStats, current_host_id |-> NoId]

\* index between requests.
IdleIndex ==
    [hosts_config |-> default_config, current_host_id |-> NoId,
     current_host |-> NoConfig, all_containers |-> <<>>, i |-> 0,
     containers_by_status |-> EmptyBuckets, queried |-> {},
     response |-> NoResponse]

\* The dashboard request starts.
StartIndexRequest(t) ==
    /\ thread[t].pc = "idle"
    /\ thread' = [thread EXCEPT ![t] =
                     [IdleThread EXCEPT !.pc = "index_load", !.req = "index"]]
    /\ index' = IdleIndex
    /\ UNCHANGED outsideIndex
    /\ UNCHANGED <<docker_hosts_json, current_host_id, session, docker_client,
                   cached_host_id>>

\* lines 44-46: hosts_config, current_host_id, current_host; then line 48
\* calls get_docker_client().
index_load(t) ==
    /\ thread[t].pc = "index_load"
    /\ LET cfg == load_docker_hosts
           hid == get_current_host_id
       IN /\ index' = [index EXCEPT !.hosts_config = cfg, !.current_host_id = hid,
                                    !.current_host = HostConfigOf(cfg, hid)]
          /\ current_host_id' = hid
    /\ thread' = [thread EXCEPT ![t].pc = "gdc_enter"]
    /\ UNCHANGED outsideIndex
    /\ UNCHANGED <<docker_hosts_json, session, docker_client, cached_host_id>>

\* current_host.get('name', current_host_id)
HostName(current_host, host_id) ==
    IF current_host = NoConfig THEN host_id ELSE current_host.name

\* Mutant of NoClientResponse: the dashboard is rendered, with empty buckets.
EmptyDashboardResponse(current_host, host_id) ==
    [NoResponse EXCEPT !.view = "dashboard.html", !.current_host_id = host_id]

\* lines 51-54: the error view rendered when get_docker_client gave no client.
NoClientResponse(current_host, host_id) ==
    [NoResponse EXCEPT !.view = "error.html",
                       !.error = "Unable to connect to Docker daemon on host",
                       !.current_host_id = host_id]

\* Mutant of NoClient: the test is missing.
NoClientNever(client) == FALSE

\* line 49: if not client
NoClient(client) == client = None

\* lines 49-54: if not client: render error.html
index_client(t) ==
    /\ thread[t].pc = "index_client"
    /\ IF NoClient(thread[t].ret)
       THEN /\ index' = [index EXCEPT !.response =
                            NoClientResponse(index.current_host, index.current_host_id)]
            /\ thread' = [thread EXCEPT ![t].pc = "done"]
       ELSE /\ thread' = [thread EXCEPT ![t].pc = "index_list"]
            /\ UNCHANGED index
    /\ UNCHANGED outsideIndex
    /\ UNCHANGED <<docker_hosts_json, current_host_id, session, docker_client,
                   cached_host_id>>

\* lines 122-127: any exception of lines 57-120 renders error.html with str(e).
ExceptionResponse(host_id) ==
    [NoResponse EXCEPT !.view = "error.html", !.error = "daemon error",
                       !.current_host_id = host_id]

\* lines 59-60: client.containers.list(all=True) and client.containers.list()
\* on the daemon the client is connected to; either query may raise.
index_list(t) ==
    /\ thread[t].pc = "index_list"
    /\ \/ \E cs \in ContainerLists :
             /\ index' = [index EXCEPT !.all_containers = cs, !.i = 1,
                                       !.queried = @ \cup {thread[t].ret.host}]
             /\ thread' = [thread EXCEPT ![t].pc = "index_loop"]
       \/ /\ index' = [index EXCEPT !.queried = @ \cup {thread[t].ret.host},
                                    !.response = ExceptionResponse(index.current_host_id)]
          /\ thread' = [thread EXCEPT ![t].pc = "done"]
    /\ UNCHANGED outsideIndex
    /\ UNCHANGED <<docker_hosts_json, current_host_id, session, docker_client,
                   cached_host_id>>

\* lines 87-90: the bucket a formatted status is filed under.
BucketOf(status) == IF status \in BucketKeys THEN status ELSE "other"

\* Mutant of AppendInfo: the record is put in front.
PrependInfo(bucket, container_info) == <<container_info>> \o bucket

\* lines 88 and 90: .append(container_info)
AppendInfo(bucket, container_info) == Append(bucket, container_info)

\* lines 77-90: one iteration of the loop over all_containers; an exception
\* that left the formatter would end the request at lines 122-127.
index_loop(t) ==
    /\ thread[t].pc = "index_loop"
    /\ index.i <= Len(index.all_containers)
    /\ LET container == index.all_containers[index.i]
           container_info == format_container_info(container)
           status == container_info.status
           b == BucketOf(status)
       IN IF FormatterRaises(container)
          THEN /\ index' = [index EXCEPT !.response =
                                ExceptionResponse(index.current_host_id)]
               /\ thread' = [thread EXCEPT ![t].pc = "done"]
          ELSE /\ index' = [index EXCEPT
                               !.containers_by_status[b] = AppendInfo(@, container_info),
                               !.i = @ + 1]
               /\ UNCHANGED thread
    /\ UNCHANGED outsideIndex
    /\ UNCHANGED <<docker_hosts_json, current_host_id, session, docker_client,
                   cached_host_id>>

\* lines 100-106: the counters of the dashboard; running_containers is the
\* length of the second list query's result.
DashboardStats(all_containers, n_running, buckets) ==
    [total_containers |-> Len(all_containers), running_containers |-> n_running]

\* lines 92-120: client.info(), client.images.list() and the render; a query
\* that raises renders error.html.  The running count is that of the second
\* query of line 60, which the daemon answers from its state at that moment.
index_render(t) ==
    /\ thread[t].pc = "index_loop"
    /\ index.i > Len(index.all_containers)
    /\ \/ \E n_running \in 0..MaxContainers :
             index' = [index EXCEPT !.response =
                          [view |-> "dashboard.html", error |-> "",
                           containers_by_status |-> index.containers_by_status,
                           stats |-> DashboardStats(index.all_containers, n_running,
                                                    index.containers_by_status),
                           current_host_id |-> index.current_host_id]]
       \/ index' = [index EXCEPT !.response = ExceptionResponse(index.current_host_id)]
    /\ thread' = [thread EXCEPT ![t].pc = "done"]
    /\ UNCHANGED outsideIndex
    /\ UNCHANGED <<docker_hosts_json, current_host_id, session, docker_client,
                   cached_host_id>>

\* The rendered page is sent; the request's locals are gone.
FinishIndex(t) ==
    /\ thread[t].pc = "done"
    /\ thread[t].req = "index"
    /\ thread' = [thread EXCEPT ![t] = IdleThread]
    /\ index' = IdleIndex
    /\ UNCHANGED outsideIndex
    /\ UNCHANGED <<docker_hosts_json, current_host_id, session, docker_client,
                   cached_host_id>>

index_request(t) ==
    \/ StartIndexRequest(t)
    \/ index_load(t)
    \/ index_client(t)
    \/ index_list(t)
    \/ index_loop(t)
    \/ index_render(t)
    \/ FinishIndex(t)

-----------------------------------------------------------------------------
(* Stats snapshots: what container.stats(stream=False) returns, and the     *)
(* figures api_routes.py lines 201-221 and container_formatter.py lines     *)
(* 181-195 derive from one.  Percentages are held in hundredths of a        *)
(* percent, the two decimals round(x, 2) keeps.                             *)

Snapshots ==
    {s \in [total_usage : 0..MaxCounter, pre_total_usage : 0..MaxCounter,
            system_cpu_usage : 0..MaxCounter, pre_system_cpu_usage : 0..MaxCounter,
            has_percpu : BOOLEAN, ncpu : 1..MaxCpus,
            usage : 0..MaxCounter, limit : 0..MaxCounter] :
        ~s.has_percpu => s.ncpu = 1}

\* What the worker hands over when container.stats raised.
NoSnapshot ==
    [total_usage |-> 0, pre_total_usage |-> 0, system_cpu_usage |-> 0,
     pre_system_cpu_usage |-> 0, has_percpu |-> FALSE, ncpu |-> 0,
     usage |-> 0, limit |-> 0]

\* A busy container under a memory limit; a container without a memory limit;
\* a container whose CPU counter restarted between the two readings.
SampleSnapshots ==
    {[NoSnapshot EXCEPT !.total_usage = 2, !.pre_total_usage = 1,
                        !.system_cpu_usage = 2, !.pre_system_cpu_usage = 1,
                        !.has_percpu = TRUE, !.ncpu = 1, !.usage = 1, !.limit = 2],
     [NoSnapshot EXCEPT !.total_usage = 1, !.system_cpu_usage = 1,
                        !.has_percpu = TRUE, !.ncpu = 1, !.usage = 1],
     [NoSnapshot EXCEPT !.pre_total_usage = 1, !.system_cpu_usage = 1,
                        !.has_percpu = TRUE, !.ncpu = 1, !.usage = 1, !.limit = 1]}

\* round(x, 2) of the quotient a / b, b > 0, in hundredths when a is scaled by
\* 10000.
RoundDiv(a, b) == (2 * a + b) \div (2 * b)

\* api_routes.py line 202, container_formatter.py line 182
CpuDelta(s) == s.total_usage - s.pre_total_usage

\* api_routes.py line 203, container_formatter.py line 183
SystemDelta(s) == s.system_cpu_usage - s.pre_system_cpu_usage

\* api_routes.py lines 204-207 and 217, container_formatter.py lines 184-188:
\* (cpu_delta / system_delta) * len(percpu_usage) * 100 when system_delta > 0,
\* else 0.0.
CpuPercent(s) ==
    IF SystemDelta(s) > 0
    THEN RoundDiv(CpuDelta(s) * s.ncpu * 10000, SystemDelta(s))
    ELSE 0

\* stats['cpu_stats']['cpu_usage']['percpu_usage'] is looked up only in the
\* branch system_delta > 0; a snapshot without the key raises KeyError there.
CpuFault(s) == SystemDelta(s) > 0 /\ ~s.has_percpu

\* Mutant of ApiMemoryPercent: a limit of 0 is replaced by 1 (memory_limit or 1).
ApiMemoryPercentLimitOrOne(usage, limit) ==
    RoundDiv(usage * 10000, IF limit > 0 THEN limit ELSE 1)

\* api_routes.py lines 212 and 220:
\* (memory_usage / memory_limit) * 100 if memory_limit > 0 else 0
ApiMemoryPercent(usage, limit) ==
    IF limit > 0 THEN RoundDiv(usage * 10000, limit) ELSE 0

\* api_routes.py lines 224-232 and 255-263: the entry with zeroed figures and
\* an error.
ZeroEntry(id, error) ==
    [id |-> id, cpu_percent |-> 0, memory_usage |-> 0, memory_limit |-> 0,
     memory_percent |-> 0, error |-> error]

\* api_routes.py lines 197-232, get_stats: the entry the worker puts on its
\* queue for the snapshot s (NoSnapshot: container.stats raised).
get_stats(id, s) ==
    IF s = NoSnapshot THEN ZeroEntry(id, "stats failed")
    ELSE IF CpuFault(s) THEN ZeroEntry(id, "KeyError")
    ELSE [id |-> id, cpu_percent |-> CpuPercent(s), memory_usage |-> s.usage,
          memory_limit |-> s.limit,
          memory_percent |-> ApiMemoryPercent(s.usage, s.limit), error |-> ""]

\* container_formatter.py lines 197-224: the zeroed resource fields; fault is
\* the exception lines 208-209 caught and logged, if any.
ZeroFields(fault) ==
    [cpu_percent |-> 0, memory_usage |-> 0, memory_limit |-> 0,
     memory_percent |-> 0, fault |-> fault]

\* container_formatter.py lines 180-213: the resource fields of the record
\* for what the queue delivered.  Line 195 divides by memory_limit without a
\* test; the ZeroDivisionError of a limit of 0, like the KeyError of line 185,
\* is caught at line 208 and all four fields are zeroed.
FormatStatsFields(s) ==
    IF s = NoSnapshot THEN ZeroFields("")
    ELSE IF CpuFault(s) THEN ZeroFields("KeyError")
    ELSE IF s.limit = 0 THEN ZeroFields("ZeroDivisionError")
    ELSE [cpu_percent |-> CpuPercent(s), memory_usage |-> s.usage,
          memory_limit |-> s.limit,
          memory_percent |-> RoundDiv(s.usage * 10000, s.limit), fault |-> ""]

\* SpecCalc: both computations applied to one snapshot.
IdleCalc ==
    [snapshot |-> NoSnapshot, api_done |-> FALSE, api |-> ZeroEntry(0, ""),
     fmt_done |-> FALSE, fmt |-> ZeroFields("")]

calc_get_stats ==
    /\ ~calc.api_done
    /\ calc' = [calc EXCEPT !.api_done = TRUE, !.api = get_stats(1, calc.snapshot)]
    /\ UNCHANGED outsideCalc

calc_format_stats ==
    /\ ~calc.fmt_done
    /\ calc' = [calc EXCEPT !.fmt_done = TRUE,
                            !.fmt = FormatStatsFields(calc.snapshot)]
    /\ UNCHANGED outsideCalc

-----------------------------------------------------------------------------
(* api_routes.py: api_container_stats, lines 193-265.  Time is counted in   *)
(* seconds from the start of the workers.                                   *)

\* line 248: thread.join(timeout=3)
JoinTimeout == 3

\* lines 255-263: the placeholder of a worker that did not answer.
TimeoutEntry(id) == ZeroEntry(id, "Timeout")

RunningWorker == [state |-> "running", put |-> ZeroEntry(0, ""), in_time |-> FALSE]

IdleBulk ==
    [pc |-> "idle", n |-> 0, clock |-> 0, worker |-> <<>>, result_queues |-> <<>>,
     i |-> 0, join_start |-> 0, stats_data |-> <<>>, collected_at |-> <<>>,
     response |-> ""]

\* lines 194-244: list the running containers (their ids are their places in
\* the list) and start one worker with its own queue for each; a list query
\* that raises is answered with the error of lines 267-269.
api_container_stats_start ==
    /\ bulk.pc = "idle"
    /\ \/ \E n \in 0..MaxRunning :
             bulk' = [IdleBulk EXCEPT
                         !.pc = IF n = 0 THEN "done" ELSE "join",
                         !.n = n,
                         !.worker = [i \in 1..n |-> RunningWorker],
                         !.result_queues = [i \in 1..n |-> <<>>],
                         !.i = 1,
                         !.response = IF n = 0 THEN "json" ELSE ""]
       \/ bulk' = [IdleBulk EXCEPT !.pc = "done", !.response = "error 500"]
    /\ UNCHANGED outsideBulk

\* line 248: join(timeout=3) gives up when 3 seconds have passed since this
\* join began.
JoinExpired(clock, join_start) == clock - join_start >= JoinTimeout

\* lines 197-232: worker w gets its snapshot (or an exception) from the daemon
\* and puts its entry on its queue; in_time records that it did so less than
\* 3 seconds after its start.  A worker that never takes this step is a
\* container that never answers.
worker_get_stats(w) ==
    /\ bulk.pc = "join"
    /\ w \in 1..bulk.n
    /\ bulk.worker[w].state = "running"
    /\ \E s \in SampleSnapshots \cup {NoSnapshot} :
          LET entry == get_stats(w, s)
          IN bulk' = [bulk EXCEPT
                         !.worker[w] = [state |-> "done", put |-> entry,
                                        in_time |-> ~JoinExpired(bulk.clock, 0)],
                         !.result_queues[w] = Append(@, entry)]
    /\ UNCHANGED outsideBulk

\* A second passes while the handler is blocked in the join of worker i.
bulk_tick ==
    /\ bulk.pc = "join"
    /\ bulk.worker[bulk.i].state = "running"
    /\ ~JoinExpired(bulk.clock, bulk.join_start)
    /\ bulk' = [bulk EXCEPT !.clock = @ + 1]
    /\ UNCHANGED outsideBulk

\* lines 247-265: the join of worker i returns, because the worker ended or
\* the timeout passed; get_nowait takes the worker's entry or the placeholder
\* is appended; after the last worker the list is sent.
join_return ==
    /\ bulk.pc = "join"
    /\ \/ bulk.worker[bulk.i].state = "done"
       \/ JoinExpired(bulk.clock, bulk.join_start)
    /\ LET i == bulk.i
           queue == bulk.result_queues[i]
           stats == IF queue # <<>> THEN Head(queue) ELSE TimeoutEntry(i)
           last == i = bulk.n
       IN bulk' = [bulk EXCEPT
                      !.result_queues[i] = IF queue # <<>> THEN Tail(queue) ELSE queue,
                      !.stats_data = Append(@, stats),
                      !.collected_at = Append(@, bulk.clock),
                      !.i = i + 1,
                      !.join_start = bulk.clock,
                      !.pc = IF last THEN "done" ELSE "join",
                      !.response = IF last THEN "json" ELSE ""]
    /\ UNCHANGED outsideBulk

\* The response is sent.
bulk_finish ==
    /\ bulk.pc = "done"
    /\ bulk' = IdleBulk
    /\ UNCHANGED outsideBulk

-----------------------------------------------------------------------------
(* container_formatter.py: format_container_info, lines 160-224, for one    *)
(* container.  Time is counted in seconds from the start of the worker.     *)

\* line 179: result_queue.get(timeout=2)
QueueTimeout == 2

IdleFmt ==
    [pc |-> "idle", mode |-> "full", status |-> "", ENABLE_STATS |-> FALSE,
     SKIP_INITIAL_STATS |-> TRUE, worker |-> "none", result_queue |-> <<>>,
     waited |-> 0, container_info |-> ZeroFields(""), outcome |-> ""]

\* format_container_info (mode full) or format_container_info_lightweight is
\* called for a container; the environment holds ENABLE_STATS and
\* SKIP_INITIAL_STATS.
format_start ==
    /\ fmt.pc = "idle"
    /\ \E mode \in {"full", "lightweight"}, status \in RawStatuses,
          enable \in BOOLEAN, skip \in BOOLEAN :
          fmt' = [IdleFmt EXCEPT !.pc = "stats", !.mode = mode,
                                 !.status = status,
                                 !.ENABLE_STATS = enable,
                                 !.SKIP_INITIAL_STATS = skip]
    /\ UNCHANGED outsideFmt

\* Mutant of SamplingWanted: the status of the container is not looked at.
SamplingWantedAnyStatus(status, enable, skip) == enable /\ ~skip

\* lines 161-162: stats are sampled for a running container when ENABLE_STATS
\* is true and SKIP_INITIAL_STATS is not.
SamplingWanted(status, enable, skip) == status = "running" /\ enable /\ ~skip

\* lines 161-176 and 214-224: either the worker thread is started on
\* get_stats, or the resource fields are zeroed at once; lines 330-341: the
\* lightweight formatter zeroes them always.
format_stats_gate ==
    /\ fmt.pc = "stats"
    /\ fmt' = IF /\ fmt.mode = "full"
                 /\ SamplingWanted(fmt.status, fmt.ENABLE_STATS,
                                   fmt.SKIP_INITIAL_STATS)
              THEN [fmt EXCEPT !.pc = "get", !.worker = "running"]
              ELSE [fmt EXCEPT !.pc = "done", !.container_info = ZeroFields(""),
                               !.outcome = "not sampled"]
    /\ UNCHANGED outsideFmt

\* lines 164-170, get_stats: the daemon answers the worker, which puts the
\* snapshot (or None, when container.stats raised) on the queue.  It may do
\* so after the caller has stopped waiting; a worker that never takes this
\* step is a daemon that never answers.
format_worker_get_stats ==
    /\ fmt.worker = "running"
    /\ \E s \in SampleSnapshots \cup {NoSnapshot} :
          fmt' = [fmt EXCEPT !.worker = "done", !.result_queue = Append(@, s)]
    /\ UNCHANGED outsideFmt

\* Mutant of QueueGetExpired: result_queue.get() without a timeout.
QueueGetNeverExpires(waited) == FALSE

\* line 179: get(timeout=2) raises queue.Empty when 2 seconds have passed.
QueueGetExpired(waited) == waited >= QueueTimeout

\* A second passes while the caller is blocked in result_queue.get.
format_tick ==
    /\ fmt.pc = "get"
    /\ fmt.result_queue = <<>>
    /\ fmt.waited < QueueTimeout
    /\ fmt' = [fmt EXCEPT !.waited = @ + 1]
    /\ UNCHANGED outsideFmt

\* lines 179-200 and 208-213: the queue delivers; the fields are computed.
format_get_return ==
    /\ fmt.pc = "get"
    /\ fmt.result_queue # <<>>
    /\ fmt' = [fmt EXCEPT !.pc = "done", !.result_queue = Tail(@),
                          !.container_info = FormatStatsFields(Head(fmt.result_queue)),
                          !.outcome = "sampled"]
    /\ UNCHANGED outsideFmt

\* lines 201-206: queue.Empty; the fields are zeroed and the worker is left
\* running.
format_get_timeout ==
    /\ fmt.pc = "get"
    /\ fmt.result_queue = <<>>
    /\ QueueGetExpired(fmt.waited)
    /\ fmt' = [fmt EXCEPT !.pc = "done", !.container_info = ZeroFields(""),
                          !.outcome = "timeout"]
    /\ UNCHANGED outsideFmt

\* lines 226-227: return container_info
format_finish ==
    /\ fmt.pc = "done"
    /\ fmt' = IdleFmt
    /\ UNCHANGED outsideFmt

-----------------------------------------------------------------------------
(* container_formatter.py and utils.py: the record format_container_info    *)
(* and format_container_info_lightweight make of one container.  Python's   *)
(* None and a missing or empty label are the strings "None" and "".         *)

\* The label keys the formatters look at.
icon_labels ==
    <<"icon", "icon.url", "app.icon", "org.opencontainers.image.icon",
      "net.unraid.docker.icon", "io.portainer.icon">>

\* format_container_info_lightweight line 308: its shorter list.
icon_labels_lightweight ==
    <<"icon", "icon.url", "app.icon", "org.opencontainers.image.icon">>

LabelKeys == {"PORT", "port"} \cup {icon_labels[k] : k \in 1..Len(icon_labels)}

\* attrs['Config']['Labels'] or {}: no label set.
NoLabels == [k \in LabelKeys |-> ""]

\* The keys of attrs['NetworkSettings']['Ports'], in declaration order.
ContainerPorts == <<"80/tcp", "443/tcp", "53/udp">>

\* The host_info of a container port: None (not bound to the host), or the
\* HostPort of each of its mappings.
HostInfos == {<<>>, <<"8080">>, <<"9090", "8080">>}

PortMaps == UNION {[1..n -> HostInfos] : n \in 0..MaxPorts}

\* The image names of the containers, as container_info['image'] holds them.
ImageNames == {"busybox:latest", "NGINX:1.25", "bitnami/mariadb", "redis-node:7"}

\* str.lower() on the image names.
Lower(image) == IF image = "NGINX:1.25" THEN "nginx:1.25" ELSE image

\* keyword in image_name, for the lowered image names.
Contains(image_name, keyword) ==
    \/ image_name = "nginx:1.25" /\ keyword = "nginx"
    \/ image_name = "bitnami/mariadb" /\ keyword = "mariadb"
    \/ image_name = "redis-node:7" /\ keyword \in {"redis", "node"}

\* A raw container as the formatters read it.  readable: the basic attributes
\* (image, attrs['Created'], attrs['State']) can be read; ports_readable,
\* labels_readable, health_readable: attrs['NetworkSettings']['Ports'],
\* attrs['Config']['Labels'] and attrs['State'].get('Health') can be.
BaseContainer ==
    [id |-> 1, name |-> "web", status |-> "running", readable |-> TRUE,
     failure |-> "", image |-> "busybox:latest",
     ports_readable |-> TRUE, ports |-> <<>>,
     labels_readable |-> TRUE, labels |-> NoLabels,
     health_readable |-> TRUE, health |-> ""]

\* The addresses of the profiles and what utils.py makes of them:
\* startswith('tcp://') and split('://')[1].split(':')[0].
StartsWithTcp(address) == address \in {"tcp://10.0.0.2:2376", "tcp://docker.lan"}

SplitHost(address) ==
    IF address = "tcp://10.0.0.2:2376" THEN "10.0.0.2"
    ELSE IF address = "tcp://docker.lan" THEN "docker.lan"
    ELSE ""

\* A remote profile whose address names no port.
LanProfile ==
    [name |-> "Lan", host |-> "tcp://docker.lan", tls_verify |-> FALSE,
     cert_path |-> "", default |-> FALSE]

\* The current_host a caller passes: hosts.get(current_host_id, {}).
CurrentHosts == {NoConfig, LocalProfile, RemoteProfile, LanProfile}

\* os.getenv('HOST_URL', 'localhost')
HostUrlSettings ==
    {"localhost", "192.168.1.5", "http://dash.example.com",
     "https://dash.example.com"}

\* utils.py lines 22-23: host_url.split('://', 1)[1] when it starts with
\* http:// or https://.
StripProtocol(host_url) ==
    IF host_url \in {"http://dash.example.com", "https://dash.example.com"}
    THEN "dash.example.com"
    ELSE host_url

\* Mutant of get_host_url_for_containers: HOST_URL is used for every profile.
get_host_url_from_setting(current_host, HOST_URL) == StripProtocol(HOST_URL)

\* utils.py lines 5-24
get_host_url_for_containers(current_host, HOST_URL) ==
    IF current_host # NoConfig /\ StartsWithTcp(current_host.host)
    THEN SplitHost(current_host.host)
    ELSE StripProtocol(HOST_URL)

\* lines 58-67 and 261-269: port_mappings, from entry i of the port map on.
RECURSIVE PortMappings(_, _)
PortMappings(ports, i) ==
    IF i > Len(ports) THEN <<>>
    ELSE (IF ports[i] # <<>>
          THEN [k \in 1..Len(ports[i]) |-> ports[i][k] \o ":" \o ContainerPorts[i]]
          ELSE <<ContainerPorts[i]>>) \o PortMappings(ports, i + 1)

\* Mutant of FirstHostPort: the first entry decides, bound or not.
FirstEntryPort(ports, i) ==
    IF i > Len(ports) \/ ports[i] = <<>> THEN "None" ELSE ports[i][1]

\* lines 56-65 and 259-267: first_host_port, from entry i of the port map on.
RECURSIVE FirstHostPort(_, _)
FirstHostPort(ports, i) ==
    IF i > Len(ports) THEN "None"
    ELSE IF ports[i] # <<>> THEN ports[i][1]
    ELSE FirstHostPort(ports, i + 1)

\* lines 74-75, 92-93, 276-277, 293-294:
\* labels.get('PORT') or labels.get('port'); a failing label lookup is passed.
PortLabel(container) ==
    IF ~container.labels_readable THEN ""
    ELSE IF container.labels["PORT"] # "" THEN container.labels["PORT"]
    ELSE container.labels["port"]

\* Mutant of UrlWanted: the URL is built whatever the status.
UrlWantedAlways(status) == TRUE

\* lines 84 and 285: if container.status == 'running'
UrlWanted(status) == status = "running"

\* lines 69-78 and 271-280: container_info['ports']
PortsField(container) ==
    LET port_mappings == PortMappings(container.ports, 1)
        port_label == PortLabel(container)
    IN IF port_mappings = <<>> /\ port_label # ""
       THEN <<port_label \o " (host)">>
       ELSE port_mappings

\* lines 83-98 and 285-299: container_info['first_port_url']
FirstPortUrl(container, current_host, HOST_URL) ==
    LET first_host_port == FirstHostPort(container.ports, 1)
        port_label == PortLabel(container)
        host_url == get_host_url_for_containers(current_host, HOST_URL)
    IN IF ~UrlWanted(container.status) THEN "None"
       ELSE IF first_host_port # "None"
            THEN "http://" \o host_url \o ":" \o first_host_port
       ELSE IF port_label # "" THEN "http://" \o host_url \o ":" \o port_label
       ELSE "None"

\* The value of the first key of keys, from place i on, that labels holds with
\* a non-empty value (lines 119-122 and 310-313); "None" when there is none.
RECURSIVE FirstIconLabel(_, _, _)
FirstIconLabel(labels, keys, i) ==
    IF i > Len(keys) THEN "None"
    ELSE IF labels[keys[i]] # "" THEN labels[keys[i]]
    ELSE FirstIconLabel(labels, keys, i + 1)

IconBase == "https://cdn.jsdelivr.net/gh/selfhst/icons/png/"

\* lines 144, 148, 318, 321: the generic icon.
DockerIcon == IconBase \o "docker.png"

\* lines 128-144: the icon of the first keyword, in the order of the elif
\* chain, that the lowered image name contains.
KeywordIcon(image) ==
    LET image_name == Lower(image)
    IN IF Contains(image_name, "nginx") THEN IconBase \o "nginx.png"
       ELSE IF Contains(image_name, "postgres") THEN IconBase \o "postgresql.png"
       ELSE IF Contains(image_name, "mysql") \/ Contains(image_name, "mariadb")
            THEN IconBase \o "mysql.png"
       ELSE IF Contains(image_name, "redis") THEN IconBase \o "redis.png"
       ELSE IF Contains(image_name, "mongo") THEN IconBase \o "mongodb.png"
       ELSE IF Contains(image_name, "node") THEN IconBase \o "nodejs.png"
       ELSE IF Contains(image_name, "python") THEN IconBase \o "python.png"
       ELSE DockerIcon

\* Mutant of IconUrl: the image name is looked at before the labels.
IconUrlKeywordFirst(container) ==
    IF ~container.labels_readable THEN DockerIcon
    ELSE IF KeywordIcon(container.image) # DockerIcon
         THEN KeywordIcon(container.image)
    ELSE LET icon_url == FirstIconLabel(container.labels, icon_labels, 1)
         IN IF icon_url # "None" THEN icon_url ELSE DockerIcon

\* format_container_info lines 104-148: container_info['icon_url']
IconUrl(container) ==
    IF ~container.labels_readable THEN DockerIcon
    ELSE LET icon_url == FirstIconLabel(container.labels, icon_labels, 1)
         IN IF icon_url # "None" THEN icon_url ELSE KeywordIcon(container.image)

\* format_container_info_lightweight lines 305-321: container_info['icon_url']
IconUrlLightweight(container) ==
    IF ~container.labels_readable THEN DockerIcon
    ELSE LET icon_url == FirstIconLabel(container.labels,
                                        icon_labels_lightweight, 1)
         IN IF icon_url # "None" THEN icon_url ELSE DockerIcon

\* lines 151-158 and 324-328: container_info['health']
Health(container) ==
    IF container.health_readable /\ container.health # ""
    THEN container.health
    ELSE "None"

\* What the stats sampling of lines 163-213 ends in for the caller: the
\* snapshot the queue delivered, the timeout of the queue, or an exception
\* raised in the caller (line 208).
StatsOutcomes ==
    {[outcome |-> o, snapshot |-> NoSnapshot] : o \in {"timeout", "raised"}}
        \cup {[outcome |-> "sample", snapshot |-> s] : s \in SampleSnapshots}

\* lines 160-224: the resource fields of the full record.
ResourceFields(input) ==
    IF /\ SamplingWanted(input.container.status, input.ENABLE_STATS,
                         input.SKIP_INITIAL_STATS)
       /\ input.stats.outcome = "sample"
    THEN FormatStatsFields(input.stats.snapshot)
    ELSE ZeroFields("")

\* The value of a field whose key the record does not hold.
Absent == "<absent>"

\* A record before any key is set; keys is the set of keys the dict holds.
EmptyInfo ==
    [keys |-> {}, id |-> 0, name |-> "", status |-> "", image |-> "",
     ports |-> <<>>, first_port_url |-> Absent, labels |-> NoLabels,
     icon_url |-> Absent, health |-> Absent, cpu_percent |-> 0,
     memory_usage |-> 0, memory_limit |-> 0, memory_percent |-> 0,
     error |-> ""]

BasicKeys == {"id", "name", "status", "image"}

ResourceKeys == {"cpu_percent", "memory_usage", "memory_limit", "memory_percent"}

\* lines 229-237 and 345-353: the record returned when formatting raised.
ErrorInfo(container) ==
    [EmptyInfo EXCEPT !.keys = BasicKeys \cup {"error"},
                      !.id = container.id, !.name = container.name,
                      !.status = FormatStatus(container), !.image = "unknown",
                      !.error = container.failure]

\* What a call yields when the exception leaves the formatter.
RaisedInfo(container) ==
    [EmptyInfo EXCEPT !.status = "<raised>", !.error = container.failure]

\* format_container_info, lines 14-237: the basic fields are set at lines
\* 21-28; 'ports' and 'first_port_url' are set at lines 69 and 83, after the
\* port map was read; 'labels' at line 106, after the labels were read;
\* 'icon_url', 'health' and the resource fields on every path.
format_container_info_full(input) ==
    LET container == input.container
        stats == ResourceFields(input)
    IN IF FormatterRaises(container) THEN RaisedInfo(container)
       ELSE IF ~container.readable THEN ErrorInfo(container)
       ELSE [EmptyInfo EXCEPT
               !.keys = BasicKeys \cup {"icon_url", "health"} \cup ResourceKeys
                          \cup (IF container.ports_readable
                                THEN {"ports", "first_port_url"} ELSE {})
                          \cup (IF container.labels_readable
                                THEN {"labels"} ELSE {}),
               !.id = container.id, !.name = container.name,
               !.status = FormatStatus(container), !.image = container.image,
               !.ports = IF container.ports_readable
                         THEN PortsField(container) ELSE <<>>,
               !.first_port_url =
                   IF container.ports_readable
                   THEN FirstPortUrl(container, input.current_host, input.HOST_URL)
                   ELSE Absent,
               !.labels = IF container.labels_readable
                          THEN container.labels ELSE NoLabels,
               !.icon_url = IconUrl(container),
               !.health = Health(container),
               !.cpu_percent = stats.cpu_percent,
               !.memory_usage = stats.memory_usage,
               !.memory_limit = stats.memory_limit,
               !.memory_percent = stats.memory_percent]

\* format_container_info_lightweight, lines 239-353: 'first_port_url' is set
\* to None with the basic fields (line 252), 'ports' at line 271, 'labels' to
\* {} and the resource fields to zero at lines 331-341.
format_container_info_lightweight(input) ==
    LET container == input.container
    IN IF FormatterRaises(container) THEN RaisedInfo(container)
       ELSE IF ~container.readable THEN ErrorInfo(container)
       ELSE [EmptyInfo EXCEPT
               !.keys = BasicKeys \cup {"first_port_url", "labels",
                                        "icon_url", "health"}
                          \cup ResourceKeys
                          \cup (IF container.ports_readable
                                THEN {"ports"} ELSE {}),
               !.id = container.id, !.name = container.name,
               !.status = FormatStatus(container), !.image = container.image,
               !.ports = IF container.ports_readable
                         THEN PortsField(container) ELSE <<>>,
               !.first_port_url =
                   IF container.ports_readable
                   THEN FirstPortUrl(container, input.current_host, input.HOST_URL)
                   ELSE "None",
               !.icon_url = IconUrlLightweight(container),
               !.health = Health(container)]

\* One call of the formatters: the container and what the caller and the
\* environment hold.
BaseInput ==
    [container |-> BaseContainer, current_host |-> LocalProfile,
     HOST_URL |-> "localhost", ENABLE_STATS |-> FALSE,
     SKIP_INITIAL_STATS |-> TRUE,
     stats |-> [outcome |-> "timeout", snapshot |-> NoSnapshot]]

\* Every status, port map and PORT/port label under every host setting.
PortInputs ==
    {[BaseInput EXCEPT !.container.status = st, !.container.ports = pm,
                       !.container.labels["PORT"] = upper,
                       !.container.labels["port"] = lower,
                       !.current_host = ch, !.HOST_URL = hu] :
        st \in RawStatuses, pm \in PortMaps, upper \in {"", "3000"},
        lower \in {"", "4000"}, ch \in CurrentHosts, hu \in HostUrlSettings}

IconKeySets == SUBSET {icon_labels[k] : k \in 1..Len(icon_labels)}

\* Every set of icon labels on every image.
IconInputs ==
    {[BaseInput EXCEPT !.container.image = im,
                       !.container.labels =
                           [k \in LabelKeys |->
                               IF k \in ks THEN "https://icons.example/" \o k
                               ELSE ""]] :
        im \in ImageNames, ks \in IconKeySets}

\* A container with a bound port, a PORT label, an icon label and a health
\* check, with every combination of unreadable parts, stats settings and
\* stats outcomes.
FailureInputs ==
    {[BaseInput EXCEPT !.container.status = st,
                       !.container.image = "NGINX:1.25",
                       !.container.ports = <<<<"8080">>>>,
                       !.container.labels["PORT"] = "3000",
                       !.container.labels["icon"] = "https://icons.example/icon",
                       !.container.health = "healthy",
                       !.container.readable = r[1],
                       !.container.failure =
                           IF r[1] THEN "" ELSE "ImageNotFound",
                       !.container.ports_readable = r[2],
                       !.container.labels_readable = r[3],
                       !.container.health_readable = r[4],
                       !.ENABLE_STATS = r[5],
                       !.SKIP_INITIAL_STATS = r[6],
                       !.stats = so] :
        st \in {"running", "exited"}, r \in [1..6 -> BOOLEAN],
        so \in StatsOutcomes}

RecordInputs == PortInputs \cup IconInputs \cup FailureInputs

IdleRec ==
    [input |-> BaseInput, full_done |-> FALSE, full |-> EmptyInfo,
     light_done |-> FALSE, light |-> EmptyInfo]

\* format_container_info(container, current_host) is called.
record_full ==
    /\ ~rec.full_done
    /\ rec' = [rec EXCEPT !.full_done = TRUE,
                          !.full = format_container_info_full(rec.input)]
    /\ UNCHANGED outsideRec

\* format_container_info_lightweight(container, current_host) is called.
record_lightweight ==
    /\ ~rec.light_done
    /\ rec' = [rec EXCEPT !.light_done = TRUE,
                          !.light = format_container_info_lightweight(rec.input)]
    /\ UNCHANGED outsideRec

-----------------------------------------------------------------------------
(* docker_hosts.py: the registry operations as whole calls, and the host    *)
(* routes of api_routes.py that make them, one request at a time            *)

\* The ids the host routes are called with: the default profile, two that
\* add_host can register, and one that is never registered.
RegistryIds == {"local", "remote", "lan-2", "ghost"}

\* str.strip() on the strings the requests carry.
Strip(s) ==
    IF s = " Remote " THEN "Remote"
    ELSE IF s = "  " THEN ""
    ELSE s

\* line 105: host_id.replace('_', '').replace('-', '').isalnum()
IdIsAlnum(host_id) == host_id \in {"local", "remote", "lan-2"}

\* The request bodies api_add_host receives; a key the body lacks reads as ''
\* (host_data.get(field, '')).
AddRequest(id, name, host) ==
    [id |-> id, name |-> name, host |-> host, tls_verify |-> FALSE,
     cert_path |-> ""]

HostDataInputs ==
    {AddRequest("remote", " Remote ", "tcp://10.0.0.2:2376"),
     AddRequest("lan-2", "Lan", "tcp://docker.lan"),
     AddRequest("local", "Again", "tcp://10.0.0.9:2376"),
     AddRequest("remote", "", "tcp://10.0.0.2:2376"),
     AddRequest("remote", "Remote", "  "),
     AddRequest("  ", "Remote", "tcp://10.0.0.2:2376"),
     AddRequest("bad id", "Remote", "tcp://10.0.0.2:2376"),
     AddRequest("--", "Remote", "tcp://10.0.0.2:2376")}

\* The body api_update_host receives.
UpdateRequest ==
    [name |-> "Moved", host |-> MovedAddress, tls_verify |-> FALSE,
     cert_path |-> ""]

\* load_docker_hosts, lines 34-53: the content of docker_hosts.json, or
\* default_config when opening or parsing the file raised.
load_docker_hosts_or_default(readable) ==
    IF readable THEN docker_hosts_json ELSE default_config

\* save_docker_hosts, lines 55-62: the content of docker_hosts.json after the
\* call; an exception of open() or json.dump() is logged and swallowed, and
\* the function returns None either way.
save_docker_hosts(hosts_config, writable) ==
    IF writable THEN hosts_config ELSE docker_hosts_json

\* The module globals and the session a registry operation may touch.
Memory ==
    [current_host_id |-> current_host_id, session |-> session,
     docker_client |-> docker_client]

\* set_current_host_id, lines 74-86: the global, the session, and
\* clear_docker_client().
set_current_host_id(host_id) ==
    [current_host_id |-> host_id, session |-> host_id, docker_client |-> None]

\* What an operation returns and leaves behind.
Outcome(ok, message, file, memory) ==
    [ok |-> ok, message |-> message, file |-> file, memory |-> memory]

Rejected(message) == Outcome(FALSE, message, docker_hosts_json, Memory)

\* validate_host_config, lines 94-108.
validate_host_config(host_data) ==
    IF Strip(host_data.id) = "" THEN "Missing required field: id"
    ELSE IF Strip(host_data.name) = "" THEN "Missing required field: name"
    ELSE IF Strip(host_data.host) = "" THEN "Missing required field: host"
    ELSE IF ~IdIsAlnum(host_data.id)
    THEN "Host ID can only contain letters, numbers, hyphens, and underscores"
    ELSE ""

\* add_host, lines 110-140.
add_host_result(host_data, readable, writable) ==
    LET error_msg == validate_host_config(host_data)
        hosts_config == load_docker_hosts_or_default(readable)
        host_id == host_data.id
        entry == [name |-> Strip(host_data.name), host |-> Strip(host_data.host),
                  tls_verify |-> host_data.tls_verify,
                  cert_path |-> Strip(host_data.cert_path), default |-> FALSE]
        added == [hosts |-> [h \in DOMAIN hosts_config.hosts \cup {host_id} |->
                                IF h = host_id THEN entry
                                ELSE hosts_config.hosts[h]],
                  current_host |-> hosts_config.current_host]
    IN IF error_msg # "" THEN Rejected(error_msg)
       ELSE IF host_id \in DOMAIN hosts_config.hosts
       THEN Rejected("Host ID already exists")
       ELSE Outcome(TRUE, "added successfully",
                    save_docker_hosts(added, writable), Memory)

\* update_host, lines 142-164: dict.update leaves the 'default' key as it is.
update_host_result(host_id, host_data, readable, writable) ==
    LET hosts_config == load_docker_hosts_or_default(readable)
        updated == [hosts_config EXCEPT
                      !.hosts[host_id].name = Strip(host_data.name),
                      !.hosts[host_id].host = Strip(host_data.host),
                      !.hosts[host_id].tls_verify = host_data.tls_verify,
                      !.hosts[host_id].cert_path = Strip(host_data.cert_path)]
    IN IF host_id \notin DOMAIN hosts_config.hosts
       THEN Rejected("Host not found")
       ELSE Outcome(TRUE, "updated successfully",
                    save_docker_hosts(updated, writable), Memory)

\* Mutant of IsLocal: the test of line 174 is missing.
IsLocalNever(host_id) == FALSE

\* Mutant of IsLocal: 'local' is protected only while it is the current host.
IsLocalWhileCurrent(host_id) ==
    host_id = "local" /\ docker_hosts_json.current_host = "local"

\* line 174: if host_id == 'local'
IsLocal(host_id) == host_id = "local"

\* Mutant of HostKnown: every id passes the test of lines 171 and 200.
HostKnownAlways(hosts_config, host_id) == TRUE

\* lines 171 and 200: host_id in hosts_config['hosts']
HostKnown(hosts_config, host_id) == host_id \in DOMAIN hosts_config.hosts

\* delete_host, lines 166-193: the current profile is deleted like any other,
\* after which 'local' is made current (lines 184-186) before the save.
delete_host_result(host_id, readable, writable) ==
    LET hosts_config == load_docker_hosts_or_default(readable)
        was_current == hosts_config.current_host = host_id
        deleted == [hosts |-> [h \in DOMAIN hosts_config.hosts \ {host_id} |->
                                  hosts_config.hosts[h]],
                    current_host |-> IF was_current THEN "local"
                                     ELSE hosts_config.current_host]
    IN IF ~HostKnown(hosts_config, host_id) THEN Rejected("Host not found")
       ELSE IF IsLocal(host_id)
       THEN Rejected("Cannot delete the local Docker host")
       ELSE Outcome(TRUE, "deleted successfully",
                    save_docker_hosts(deleted, writable),
                    IF was_current THEN set_current_host_id("local")
                    ELSE Memory)

\* switch_host, lines 195-213.
switch_host_result(host_id, readable, writable) ==
    LET hosts_config == load_docker_hosts_or_default(readable)
        switched == [hosts |-> hosts_config.hosts, current_host |-> host_id]
    IN IF ~HostKnown(hosts_config, host_id) THEN Rejected("Host not found")
       ELSE Outcome(TRUE, "Switched to Docker host",
                    save_docker_hosts(switched, writable),
                    set_current_host_id(host_id))

\* The shared state as a request finds it.
Snapshot ==
    [file |-> docker_hosts_json, current_host_id |-> current_host_id,
     session |-> session, docker_client |-> docker_client,
     cached_host_id |-> cached_host_id]

NoSnapshotYet ==
    [file |-> default_config, current_host_id |-> NoId, session |-> NoId,
     docker_client |-> None, cached_host_id |-> NoId]

\* No host route is being answered.
IdleReg ==
    [op |-> "idle", arg |-> NoId, ok |-> FALSE, message |-> "",
     readable |-> TRUE, writable |-> TRUE, before |-> NoSnapshotYet]

\* The state a host route reports for its call: what it was asked, what the
\* operation returned, whether the file could be read and written during the
\* call, and the shared state the call found.
Answered(op, arg, result, readable, writable) ==
    [op |-> op, arg |-> arg, ok |-> result.ok, message |-> result.message,
     readable |-> readable, writable |-> writable, before |-> Snapshot]

\* A route makes its call and applies what the operation leaves behind.
Apply(op, arg, result, readable, writable) ==
    /\ docker_hosts_json' = result.file
    /\ current_host_id' = result.memory.current_host_id
    /\ session' = result.memory.session
    /\ docker_client' = result.memory.docker_client
    /\ reg' = Answered(op, arg, result, readable, writable)
    /\ UNCHANGED cached_host_id
    /\ UNCHANGED outsideReg

\* The wait of result_queue.get(timeout=10), in ticks of the model's clock.
TestTimeout == 2

\* No connection test is being made.
IdleTest ==
    [pc |-> "idle", host_id |-> NoId, worker |-> "none", result_queue |-> <<>>,
     waited |-> 0, returned |-> <<>>, before |-> NoSnapshotYet]

\* The host routes are served one request at a time.
NoHostRequest == reg.op = "idle" /\ test.pc = "idle"

\* api_routes.py api_add_host, lines 26-45.
api_add_host ==
    /\ NoHostRequest
    /\ \E host_data \in HostDataInputs, readable \in BOOLEAN, writable \in BOOLEAN :
          Apply("add", host_data.id,
                add_host_result(host_data, readable, writable),
                readable, writable)

\* api_routes.py api_update_host, lines 47-66.
api_update_host ==
    /\ NoHostRequest
    /\ \E host_id \in RegistryIds, readable \in BOOLEAN, writable \in BOOLEAN :
          Apply("update", host_id,
                update_host_result(host_id, UpdateRequest, readable, writable),
                readable, writable)

\* api_routes.py api_delete_host, lines 68-82.
api_delete_host ==
    /\ NoHostRequest
    /\ \E host_id \in RegistryIds, readable \in BOOLEAN, writable \in BOOLEAN :
          Apply("delete", host_id,
                delete_host_result(host_id, readable, writable),
                readable, writable)

\* api_routes.py api_switch_host, lines 84-98.
api_switch_host ==
    /\ NoHostRequest
    /\ \E host_id \in RegistryIds, readable \in BOOLEAN, writable \in BOOLEAN :
          Apply("switch", host_id,
                switch_host_result(host_id, readable, writable),
                readable, writable)

\* The response of a host route is sent.
api_host_respond ==
    /\ reg.op # "idle"
    /\ reg' = IdleReg
    /\ UNCHANGED connVars
    /\ UNCHANGED <<index, bulk, fmt, calc, rec, daemon_down, test>>

\* api_routes.py api_containers, line 136: get_docker_client() run from start
\* to end by the only request in progress (docker_client.py lines 21-93).
api_containers ==
    /\ NoHostRequest
    /\ LET host_id == get_current_host_id
           host_config == HostConfigOf(load_docker_hosts, host_id)
       IN /\ current_host_id' = host_id
          /\ IF \/ CacheHit(docker_client, cached_host_id, host_id)
                \/ host_config = NoConfig
             THEN UNCHANGED <<docker_client, cached_host_id>>
             ELSE \E outcome \in ConnectOutcomes :
                     /\ outcome = "ok" => Reachable(host_id)
                     /\ docker_client' =
                           IF Accepted(outcome)
                           THEN Verified(NewClient(host_id, host_config))
                           ELSE None
                     /\ cached_host_id' =
                           IF Accepted(outcome) THEN host_id ELSE cached_host_id
    /\ UNCHANGED <<docker_hosts_json, session, reg>>
    /\ UNCHANGED outsideReg

-----------------------------------------------------------------------------
(* docker_client.py: test_docker_connection, called by api_test_host *)

\* api_routes.py api_test_host, lines 105-111, and docker_client.py lines
\* 151-154: an unknown id is answered 'Host not found'; else the queue is
\* made and the worker thread started.
api_test_host ==
    /\ NoHostRequest
    /\ \E host_id \in RegistryIds :
          test' = IF host_id \in DOMAIN load_docker_hosts.hosts
                  THEN [IdleTest EXCEPT !.pc = "get", !.host_id = host_id,
                                        !.worker = "running",
                                        !.before = Snapshot]
                  ELSE [IdleTest EXCEPT !.pc = "done", !.host_id = host_id,
                                        !.returned = <<[success |-> FALSE,
                                                        error |-> "Host not found"]>>,
                                        !.before = Snapshot]
    /\ UNCHANGED outsideTest

\* test_connection, lines 101-148: the worker builds its own client, asks
\* version() and info(), and puts the success or the failure on the queue.
test_connection ==
    /\ test.worker = "running"
    /\ \E outcome \in ConnectOutcomes :
          /\ outcome = "ok" => Reachable(test.host_id)
          /\ test' = [test EXCEPT
                         !.worker = "done",
                         !.result_queue =
                             Append(@, [success |-> outcome = "ok",
                                        error |-> IF outcome = "ok" THEN ""
                                                  ELSE ErrorMessage(outcome)])]
    /\ UNCHANGED outsideTest

\* Mutant of TestGetExpired: the get has no timeout.
TestGetNeverExpires(waited) == FALSE

\* line 158: result_queue.get(timeout=10) gives up after the timeout.
TestGetExpired(waited) == waited >= TestTimeout

\* Time passes while the caller waits in result_queue.get.
test_tick ==
    /\ test.pc = "get"
    /\ test.result_queue = <<>>
    /\ test.waited < TestTimeout
    /\ test' = [test EXCEPT !.waited = @ + 1]
    /\ UNCHANGED outsideTest

\* lines 158-159: the get returns the worker's result, which is returned.
test_get_return ==
    /\ test.pc = "get"
    /\ test.result_queue # <<>>
    /\ test' = [test EXCEPT !.pc = "done",
                            !.returned = Append(@, Head(test.result_queue)),
                            !.result_queue = Tail(@)]
    /\ UNCHANGED outsideTest

\* lines 160-169: queue.Empty after the timeout; the failure result is returned
\* and the worker, a daemon thread, is left behind.
test_get_timeout ==
    /\ test.pc = "get"
    /\ test.result_queue = <<>>
    /\ TestGetExpired(test.waited)
    /\ test' = [test EXCEPT !.pc = "done",
                            !.returned =
                                Append(@, [success |-> FALSE,
                                           error |-> "Connection test timed out"])]
    /\ UNCHANGED outsideTest

\* api_test_host, lines 113-124: the response is sent.
api_test_host_respond ==
    /\ test.pc = "done"
    /\ test' = IdleTest
    /\ UNCHANGED outsideTest

-----------------------------------------------------------------------------
(* Specifications *)

vars == <<docker_hosts_json, current_host_id, session, docker_client,
          cached_host_id, thread, index, bulk, fmt, calc, rec, daemon_down, reg,
          test>>

Init ==
    /\ InitConn
    /\ index = IdleIndex
    /\ bulk = IdleBulk
    /\ fmt = IdleFmt
    /\ calc = IdleCalc
    /\ rec = IdleRec
    /\ reg = IdleReg
    /\ test = IdleTest

\* Spec: NumThreads request threads run get_docker_client() and switch_host
\* concurrently.
Next ==
    \E t \in Threads :
        \/ StartClientRequest(t, {NoId})
        \/ StartSwitchRequest(t)
        \/ get_docker_client(t)
        \/ switch_host(t)
        \/ Finish(t)

Spec == Init /\ [][Next]_vars

\* SpecSeq: one request at a time (thread 1): the dashboard, a handler that
\* obtains the client for the current or a named host, a host switch.
NextSeq ==
    \/ index_request(1)
    \/ StartClientRequest(1, {NoId} \cup RequestIds)
    \/ StartSwitchRequest(1)
    \/ get_docker_client(1)
    \/ switch_host(1)
    \/ Finish(1)

SpecSeq == Init /\ [][NextSeq]_vars

\* SpecCache: one request at a time on the connector, with profiles being
\* updated and daemons going down and coming back between requests.
NextCache ==
    \/ StartClientRequest(1, {NoId} \cup RequestIds)
    \/ StartSwitchRequest(1)
    \/ update_host(1)
    \/ DaemonChanges
    \/ get_docker_client(1)
    \/ switch_host(1)
    \/ Finish(1)

SpecCache == Init /\ [][NextCache]_vars

\* SpecStats: the bulk stats endpoint, its workers and the clock.
NextStats ==
    \/ api_container_stats_start
    \/ \E w \in 1..MaxRunning : worker_get_stats(w)
    \/ bulk_tick
    \/ join_return
    \/ bulk_finish

SpecStats == Init /\ [][NextStats]_vars

\* SpecFormat: the resource sampling of format_container_info, its worker and
\* the clock.
NextFormat ==
    \/ format_start
    \/ format_stats_gate
    \/ format_worker_get_stats
    \/ format_tick
    \/ format_get_return
    \/ format_get_timeout
    \/ format_finish

SpecFormat == Init /\ [][NextFormat]_vars

\* SpecCalc: every snapshot within the bounds, and both computations on it.
InitCalc ==
    /\ InitConn
    /\ index = IdleIndex
    /\ bulk = IdleBulk
    /\ fmt = IdleFmt
    /\ calc \in {[IdleCalc EXCEPT !.snapshot = s] : s \in Snapshots}
    /\ rec = IdleRec
    /\ reg = IdleReg
    /\ test = IdleTest

NextCalc ==
    \/ calc_get_stats
    \/ calc_format_stats

SpecCalc == InitCalc /\ [][NextCalc]_vars

\* SpecRecord: every formatter input within the bounds, and both formatters
\* applied to it.
InitRecord ==
    /\ InitConn
    /\ index = IdleIndex
    /\ bulk = IdleBulk
    /\ fmt = IdleFmt
    /\ calc = IdleCalc
    /\ rec \in {[IdleRec EXCEPT !.input = input] : input \in RecordInputs}
    /\ reg = IdleReg
    /\ test = IdleTest

NextRecord ==
    \/ record_full
    \/ record_lightweight

SpecRecord == InitRecord /\ [][NextRecord]_vars

\* SpecRegistry: the host routes, one request at a time, from the default
\* registry of a fresh installation; the registry file may fail to be read or
\* written during any call.
InitRegistry ==
    /\ docker_hosts_json = default_config
    /\ current_host_id = NoId
    /\ session = NoId
    /\ docker_client = None
    /\ cached_host_id = NoId
    /\ thread = [t \in Threads |-> IdleThread]
    /\ daemon_down = {}
    /\ index = IdleIndex
    /\ bulk = IdleBulk
    /\ fmt = IdleFmt
    /\ calc = IdleCalc
    /\ rec = IdleRec
    /\ reg = IdleReg
    /\ test = IdleTest

NextRegistry ==
    \/ api_add_host
    \/ api_update_host
    \/ api_delete_host
    \/ api_switch_host
    \/ api_host_respond
    \/ api_containers
    \/ api_test_host
    \/ test_connection
    \/ test_tick
    \/ test_get_return
    \/ test_get_timeout
    \/ api_test_host_respond

SpecRegistry == InitRegistry /\ [][NextRegistry]_vars

-----------------------------------------------------------------------------
(* Claims about the connector (docker_client.py) *)

\* A finished call of get_docker_client by a handler that only obtains the client.
ClientCallDone(t) == thread[t].pc = "done" /\ thread[t].req = "client"

\* The call ended in the failure path: the profile was unknown or the
\* connection attempt failed, which is what lines 39, 88, 90 and 92 log.
Failed(t) == thread[t].log # NoLog

\* C3: get_docker_client returns a handle only if the version()/info() round
\* trip on that handle succeeded, in this call or in the call that cached it;
\* a handle whose test failed is never returned and never put in the cache.
C3_OnlyVerifiedHandles ==
    /\ docker_client # None => docker_client.verified
    /\ \A t \in Threads :
          thread[t].returned /\ thread[t].ret # None => thread[t].ret.verified

\* C3 witness: one call has returned the handle it found in the cache while
\* another call's connection attempt has failed.
C3_Witness ==
    \E t, u \in Threads :
        /\ t # u
        /\ thread[t].pc = "done" /\ thread[t].ret # None
        /\ thread[t].ret = docker_client
        /\ thread[u].pc = "done" /\ Failed(u)

\* C5 (as claimed): under every interleaving a call for host id P never returns
\* a handle connected for another host, and a thread that has found the cache
\* usable for P (line 32) never faces a cached handle of another host.
C5_CacheSafe ==
    \A t \in Threads :
        /\ thread[t].returned /\ thread[t].ret # None
              => thread[t].ret.host = thread[t].host_id
        /\ thread[t].pc = "gdc_return_cached" /\ docker_client # None
              => docker_client.host = thread[t].host_id

\* The ConnectionError value the spec describes: the last underlying error
\* message and the address attempted.
ConnectionError(message, address) == [error |-> message, address |-> address]

-----------------------------------------------------------------------------
(* Claims about the dashboard request (app_new.py index) *)

\* index has answered.
IndexDone == thread[1].pc = "done" /\ thread[1].req = "index"

\* The hosts whose containers a response shows.
HostsListed(response) ==
    IF response.view = "dashboard.html" THEN {response.current_host_id} ELSE {}

AllBucketsEmpty(buckets) == \A b \in BucketKeys : buckets[b] = <<>>

Processed == IF index.i = 0 THEN 0 ELSE index.i - 1

\* The places <<bucket, position>> that hold the record of container id.
PlacesOf(id) ==
    {p \in BucketKeys \X (1..MaxContainers + 1) :
        /\ p[2] <= Len(index.containers_by_status[p[1]])
        /\ index.containers_by_status[p[1]][p[2]].id = id}

\* C2: every container the loop has gone through is in exactly one bucket, in
\* 'other' exactly when its formatted status is none of the four named ones
\* (else in the bucket of that name), each bucket keeps the order of the list
\* result, and the dashboard shows these buckets for the whole list.
C2_Bucketing ==
    /\ \A id \in 1..Len(index.all_containers) :
          Cardinality(PlacesOf(id)) = (IF id <= Processed THEN 1 ELSE 0)
    /\ \A b \in BucketKeys :
          LET bucket == index.containers_by_status[b]
          IN /\ \A k \in 1..Len(bucket) :
                   /\ bucket[k].id \in 1..Len(index.all_containers)
                   /\ b = "other" <=> bucket[k].status \notin NamedStatuses
                   /\ b # "other" => bucket[k].status = b
             /\ \A k1, k2 \in 1..Len(bucket) :
                   k1 < k2 => bucket[k1].id < bucket[k2].id
    /\ index.response.view = "dashboard.html" =>
          /\ Processed = Len(index.all_containers)
          /\ index.response.containers_by_status = index.containers_by_status

\* C2 witness: two running containers and one exited one give a dashboard
\* with two records under 'running' and one under 'exited'.
C2_Witness ==
    /\ IndexDone /\ index.response.view = "dashboard.html"
    /\ Len(index.all_containers) = 3
    /\ \A j \in 1..3 : index.all_containers[j].readable
    /\ index.all_containers[1].status = "running"
    /\ index.all_containers[2].status = "exited"
    /\ index.all_containers[3].status = "running"
    /\ Len(index.response.containers_by_status["running"]) = 2
    /\ Len(index.response.containers_by_status["exited"]) = 1

\* The formatted records index holds, each with the bucket it is in.
Filed ==
    {p \in BucketKeys \X (1..MaxContainers + 1) :
        p[2] <= Len(index.containers_by_status[p[1]])}

-----------------------------------------------------------------------------
(* Claims about the resource sampling (container_formatter.py, api_routes.py) *)

\* The caller of format_container_info's sampling can take a step.
FormatCallerCanMove ==
    ENABLED (format_tick \/ format_get_return \/ format_get_timeout)

\* C6: when the stats call of a container does not answer, the formatter
\* waits no longer than its 2 second deadline and is then able to return; it
\* returns at the deadline without waiting for the worker, which is left
\* running (or its late answer unread), and the record it returns has
\* cpu_percent, memory_usage, memory_limit and memory_percent all zero.
C6_TimeoutZeroesAndReturns ==
    /\ fmt.pc = "get" =>
          /\ fmt.waited <= QueueTimeout
          /\ FormatCallerCanMove
    /\ (fmt.pc = "done" /\ fmt.outcome = "timeout") =>
          /\ fmt.waited = QueueTimeout
          /\ fmt.worker = "running" \/ fmt.result_queue # <<>>
          /\ fmt.container_info.cpu_percent = 0
          /\ fmt.container_info.memory_usage = 0
          /\ fmt.container_info.memory_limit = 0
          /\ fmt.container_info.memory_percent = 0

\* C6 witness: the formatter has returned by timeout while the worker is
\* still waiting for the daemon.
C6_Witness ==
    /\ fmt.pc = "done" /\ fmt.outcome = "timeout"
    /\ fmt.status = "running" /\ fmt.ENABLE_STATS /\ ~fmt.SKIP_INITIAL_STATS
    /\ fmt.worker = "running" /\ fmt.result_queue = <<>>
    /\ fmt.waited = QueueTimeout

BulkDone == bulk.pc = "done" /\ bulk.response = "json"

\* C7 (parts that hold): the response has one entry per running container in
\* list order; a worker that answered within 3 seconds of its start has its
\* own sample in the response; a worker that never answered has the zeroed
\* entry with error 'Timeout'.
C7_EntriesInOrder ==
    BulkDone =>
        /\ Len(bulk.stats_data) = bulk.n
        /\ \A i \in 1..bulk.n :
              /\ bulk.stats_data[i].id = i
              /\ (bulk.worker[i].state = "done" /\ bulk.worker[i].in_time)
                    => bulk.stats_data[i] = bulk.worker[i].put
              /\ bulk.worker[i].state = "running"
                    => bulk.stats_data[i] = TimeoutEntry(i)

\* C7: as above, and a slow container never delays the in-time sample of
\* another container past that container's own 3 second deadline.
C7_IndependentDeadlines ==
    /\ C7_EntriesInOrder
    /\ BulkDone =>
          \A i \in 1..bulk.n :
              (bulk.worker[i].state = "done" /\ bulk.worker[i].in_time)
                 => bulk.collected_at[i] <= JoinTimeout

\* The failing run of C7: three running containers, the first two never
\* answer, the third answers at once and is collected after 6 seconds.
C7_DelayedState ==
    /\ BulkDone /\ bulk.n = 3
    /\ bulk.worker[1].state = "running" /\ bulk.worker[2].state = "running"
    /\ bulk.worker[3].state = "done" /\ bulk.worker[3].in_time
    /\ bulk.stats_data[3] = bulk.worker[3].put
    /\ bulk.collected_at[3] = 2 * JoinTimeout

\* C8: cpu_percent is never negative, is 0 whenever system_delta <= 0, and
\* the computation never divides by zero, in the bulk endpoint and in the
\* formatter.
C8_CpuPercentNonNegative ==
    /\ calc.api_done =>
          /\ calc.api.cpu_percent >= 0
          /\ SystemDelta(calc.snapshot) <= 0 =>
                calc.api.cpu_percent = 0 /\ calc.api.error = ""
    /\ calc.fmt_done =>
          /\ calc.fmt.cpu_percent >= 0
          /\ SystemDelta(calc.snapshot) <= 0 => calc.fmt.cpu_percent = 0

\* C8 (parts that hold): cpu_percent is 0 whenever system_delta <= 0, and the
\* CPU computation raises nothing then.
C8_ZeroWithoutSystemDelta ==
    SystemDelta(calc.snapshot) <= 0 =>
        /\ calc.api_done => calc.api.cpu_percent = 0 /\ calc.api.error = ""
        /\ calc.fmt_done =>
              calc.fmt.cpu_percent = 0 /\ calc.fmt.fault # "KeyError"

-----------------------------------------------------------------------------
(* Claims about the formatted record (container_formatter.py, utils.py) *)

RecContainer == rec.input.container

\* C11: a container that is not running is never given a first_port_url,
\* whatever its port bindings and PORT/port labels: the field is None in the
\* lightweight record and in the full record of every container whose port
\* map can be read, and no record of such a container holds a URL.
C11_NoUrlUnlessRunning ==
    RecContainer.status # "running" =>
        /\ (rec.light_done /\ RecContainer.readable)
              => rec.light.first_port_url = "None"
        /\ (rec.full_done /\ RecContainer.readable /\ RecContainer.ports_readable)
              => rec.full.first_port_url = "None"
        /\ rec.light_done => rec.light.first_port_url \in {"None", Absent}
        /\ rec.full_done => rec.full.first_port_url \in {"None", Absent}

\* C11 witness: an exited container with a host-bound port and a PORT label
\* has been formatted by both formatters, and neither record has a URL.
C11_Witness ==
    /\ RecContainer.status = "exited"
    /\ RecContainer.ports = <<<<"8080">>>> /\ RecContainer.labels["PORT"] = "3000"
    /\ RecContainer.readable /\ RecContainer.ports_readable
    /\ rec.full_done /\ rec.light_done
    /\ "first_port_url" \in rec.full.keys /\ rec.full.first_port_url = "None"
    /\ "first_port_url" \in rec.light.keys /\ rec.light.first_port_url = "None"

\* The host of the URL as C12 states it, for the profiles and HOST_URL
\* settings of the inputs.
C12_Host ==
    IF rec.input.current_host = RemoteProfile THEN "10.0.0.2"
    ELSE IF rec.input.current_host = LanProfile THEN "docker.lan"
    ELSE IF rec.input.HOST_URL \in {"http://dash.example.com",
                                    "https://dash.example.com"}
         THEN "dash.example.com"
    ELSE rec.input.HOST_URL

\* The port of the URL as C12 states it; "None" when there is none.
C12_Port ==
    LET ports == RecContainer.ports
        bound == {i \in 1..Len(ports) : ports[i] # <<>>}
    IN IF bound # {}
       THEN ports[CHOOSE i \in bound : \A j \in bound : i <= j][1]
       ELSE IF RecContainer.labels["PORT"] # "" THEN RecContainer.labels["PORT"]
       ELSE IF RecContainer.labels["port"] # "" THEN RecContainer.labels["port"]
       ELSE "None"

C12_Url ==
    IF C12_Port = "None" THEN "None"
    ELSE "http://" \o C12_Host \o ":" \o C12_Port

\* C12: for a running container first_port_url is http://<host>:<port> with
\* the host port of the first host-bound entry of the port map, else the PORT
\* label, else the port label, else it is None; the host is the one embedded
\* in a tcp:// address of the current profile, else HOST_URL without its
\* http:// or https:// prefix.
C12_FirstPortUrl ==
    (/\ RecContainer.status = "running"
     /\ RecContainer.readable
     /\ RecContainer.ports_readable
     /\ RecContainer.labels_readable) =>
        /\ rec.full_done => rec.full.first_port_url = C12_Url
        /\ rec.light_done => rec.light.first_port_url = C12_Url

\* C12 witness: a running container on the remote profile whose first
\* container port is unbound, whose second is bound to 9090 and 8080, and
\* which carries a PORT label, is given http://10.0.0.2:9090.
C12_Witness ==
    /\ RecContainer.status = "running"
    /\ RecContainer.ports = <<<<>>, <<"9090", "8080">>>>
    /\ RecContainer.labels["PORT"] = "3000"
    /\ rec.input.current_host = RemoteProfile
    /\ rec.full_done /\ rec.light_done
    /\ rec.full.first_port_url = "http://10.0.0.2:9090"
    /\ rec.light.first_port_url = "http://10.0.0.2:9090"

\* The icon labels of the input that hold a value, as places in icon_labels.
C13_Labelled ==
    {k \in 1..Len(icon_labels) : RecContainer.labels[icon_labels[k]] # ""}

\* The icon C13 states for the container of the input.
C13_Icon ==
    IF C13_Labelled # {}
    THEN RecContainer.labels[
             icon_labels[CHOOSE k \in C13_Labelled : \A j \in C13_Labelled : k <= j]]
    ELSE IF RecContainer.image = "NGINX:1.25" THEN IconBase \o "nginx.png"
    ELSE IF RecContainer.image = "bitnami/mariadb" THEN IconBase \o "mysql.png"
    ELSE IF RecContainer.image = "redis-node:7" THEN IconBase \o "redis.png"
    ELSE IconBase \o "docker.png"

\* C13 (the full formatter): icon_url is the value of the first icon label in
\* priority order that is set, else the icon of the image keyword, else the
\* generic icon.
C13_FullPrecedence ==
    (rec.full_done /\ RecContainer.readable /\ RecContainer.labels_readable)
        => rec.full.icon_url = C13_Icon

\* C13: as above, in both formatters.
C13_IconPrecedence ==
    /\ C13_FullPrecedence
    /\ (rec.light_done /\ RecContainer.readable /\ RecContainer.labels_readable)
          => rec.light.icon_url = C13_Icon

\* C14: the stats worker of the formatter is started only in full mode, for
\* a running container and with ENABLE_STATS true; in every other case the
\* formatter returns with the four resource fields zero and no worker.
C14_StatsOnlyWhenEnabled ==
    LET allowed == /\ fmt.mode = "full"
                   /\ fmt.status = "running"
                   /\ fmt.ENABLE_STATS
    IN /\ fmt.worker # "none" => allowed
       /\ (fmt.pc = "done" /\ ~allowed) =>
             /\ fmt.worker = "none" /\ fmt.result_queue = <<>>
             /\ fmt.container_info.cpu_percent = 0
             /\ fmt.container_info.memory_usage = 0
             /\ fmt.container_info.memory_limit = 0
             /\ fmt.container_info.memory_percent = 0

\* C14 witness: the full formatter has returned for an exited container with
\* ENABLE_STATS true and SKIP_INITIAL_STATS false, without a worker.
C14_Witness ==
    /\ fmt.pc = "done" /\ fmt.mode = "full" /\ fmt.status = "exited"
    /\ fmt.ENABLE_STATS /\ ~fmt.SKIP_INITIAL_STATS
    /\ fmt.worker = "none" /\ fmt.outcome = "not sampled"

\* The minimal record of lines 229-237 and 345-353.
IsErrorRecord(info, container) ==
    /\ info.keys = {"id", "name", "status", "image", "error"}
    /\ info.id = container.id /\ info.name = container.name
    /\ info.status = "error" /\ info.error = container.failure
    /\ info.error # ""

\* C15 (the record): a container whose basic attributes cannot be read is
\* formatted, by both formatters, as the minimal record with id, name,
\* status 'error' and the error message.
C15_ErrorRecord ==
    ~RecContainer.readable =>
        /\ rec.full_done => IsErrorRecord(rec.full, RecContainer)
        /\ rec.light_done => IsErrorRecord(rec.light, RecContainer)

\* C15: every unreadable container the dashboard loop has gone through has
\* its record with status 'error' and an error message in the buckets, and
\* the failure does not leave the formatter: once the list is there, only
\* the render after the last container can end the request in the exception
\* view, so every container after an unreadable one is formatted too.
C15_FailureContained ==
    /\ \A j \in 1..Len(index.all_containers) :
          (j <= Processed /\ ~index.all_containers[j].readable) =>
              \E p \in PlacesOf(j) :
                 LET info == index.containers_by_status[p[1]][p[2]]
                 IN /\ info.id = j
                    /\ info.status = "error"
                    /\ info.error # ""
    /\ (IndexDone /\ index.queried # {}) =>
          (index.all_containers # <<>> => Processed = Len(index.all_containers))

\* C15 witness: the dashboard is rendered for a list whose first container is
\* unreadable and whose second is running; both are in the buckets.
C15_Witness ==
    /\ IndexDone /\ index.response.view = "dashboard.html"
    /\ Len(index.all_containers) >= 2
    /\ ~index.all_containers[1].readable
    /\ index.all_containers[2].readable
    /\ index.all_containers[2].status = "running"
    /\ Len(index.response.containers_by_status["other"]) >= 1
    /\ index.response.containers_by_status["other"][1].status = "error"
    /\ Len(index.response.containers_by_status["running"]) >= 1
    /\ index.response.containers_by_status["running"][1].id = 2

\* The keys of the derived field groups of C16.
C16_GroupKeys ==
    {"ports", "first_port_url", "labels", "icon_url", "health"} \cup ResourceKeys

\* The full record of the same call had every part of the container been
\* readable.
C16_Reference ==
    format_container_info_full(
        [rec.input EXCEPT !.container.ports_readable = TRUE,
                          !.container.labels_readable = TRUE,
                          !.container.health_readable = TRUE])

\* C16 (the part that holds): in the full record of a container whose basic
\* attributes can be read, every group that did not fail has the values it
\* has when nothing fails, and icon_url, health and the resource fields are
\* there with their defaults when their group failed.
C16_OthersUnaffected ==
    (rec.full_done /\ RecContainer.readable) =>
        LET info == rec.full
            ref == C16_Reference
        IN /\ RecContainer.ports_readable =>
                 info.ports = ref.ports /\ info.first_port_url = ref.first_port_url
           /\ RecContainer.labels_readable =>
                 info.labels = ref.labels /\ info.icon_url = ref.icon_url
           /\ RecContainer.health_readable => info.health = ref.health
           /\ info.cpu_percent = ref.cpu_percent
           /\ info.memory_usage = ref.memory_usage
           /\ info.memory_limit = ref.memory_limit
           /\ info.memory_percent = ref.memory_percent
           /\ {"icon_url", "health"} \cup ResourceKeys \subseteq info.keys
           /\ ~RecContainer.labels_readable => info.icon_url = DockerIcon
           /\ ~RecContainer.health_readable => info.health = "None"

\* C16: as above, and the record always holds the keys of every group, the
\* failing group's with their default values.
C16_GroupsIndependent ==
    /\ C16_OthersUnaffected
    /\ (rec.full_done /\ RecContainer.readable) =>
          /\ C16_GroupKeys \subseteq rec.full.keys
          /\ ~RecContainer.ports_readable =>
                rec.full.ports = <<>> /\ rec.full.first_port_url = "None"

-----------------------------------------------------------------------------
(* Claims about the dashboard without a client and about the cache over time *)

\* C17: when get_docker_client gives no client, index goes on to no query:
\* it ends in the error view with the 'unable to connect' message, without
\* having listed containers on any host and without an exception leaving
\* it, and never in the dashboard view.
C17_ErrorViewWithoutClient ==
    /\ (thread[1].req = "index" /\ thread[1].pc \in {"index_list", "index_loop"})
          => thread[1].ret # None
    /\ (IndexDone /\ thread[1].ret = None) =>
          /\ index.response = NoClientResponse(index.current_host,
                                               index.current_host_id)
          /\ index.response.view # "dashboard.html"
          /\ index.queried = {}
          /\ index.all_containers = <<>>
          /\ ~thread[1].raised

\* C17 witness: the connection attempt to the only profile, the local one,
\* failed and index has answered with the error view.
C17_Witness ==
    /\ IndexDone /\ thread[1].ret = None
    /\ DOMAIN index.hosts_config.hosts = {"local"}
    /\ index.current_host_id = "local"
    /\ thread[1].log.error # ""
    /\ index.response.view = "error.html"

\* C18: a handle get_docker_client returns for a profile is connected to the
\* address the registry holds for that profile at that moment, also after
\* update_host has changed the address.
C18_HandleFollowsProfile ==
    (ClientCallDone(1) /\ thread[1].ret # None) =>
        /\ thread[1].host_id \in DOMAIN docker_hosts_json.hosts
        /\ thread[1].ret.base_url = docker_hosts_json.hosts[thread[1].host_id].host

\* C19: when switch_host has succeeded the cache holds no handle, and in a
\* sequential run a handle that get_docker_client() returns is one connected
\* for the current host, never one of the host that was active before.
C19_SwitchInvalidates ==
    /\ (thread[1].req = "switch" /\ thread[1].pc = "done" /\ thread[1].ok)
          => /\ docker_client = None
             /\ current_host_id = thread[1].arg
    /\ (ClientCallDone(1) /\ thread[1].arg = NoId /\ thread[1].ret # None)
          => /\ thread[1].ret.host = current_host_id
             /\ thread[1].ret = docker_client

\* C19 witness: a handle for 'local' had been cached, and switch_host('remote')
\* has succeeded.
C19_Witness ==
    /\ thread[1].req = "switch" /\ thread[1].pc = "done" /\ thread[1].ok
    /\ thread[1].arg = "remote"
    /\ cached_host_id = "local"
    /\ docker_client = None

\* C20: get_docker_client never returns a handle of a host whose daemon does
\* not answer: a cached handle is probed before it is reused.
C20_NoDeadHandle ==
    (ClientCallDone(1) /\ thread[1].ret # None) => Reachable(thread[1].ret.host)

-----------------------------------------------------------------------------
(* Claims about the two formatters side by side *)

\* The fields both variants are to agree on.
C29_SharedKeys ==
    {"id", "name", "image", "status", "ports", "first_port_url", "icon_url",
     "health"}

\* The shared fields of a record: which of them it holds, and their values.
C29_Shared(info) ==
    <<info.keys \cap C29_SharedKeys, info.id, info.name, info.image,
      info.status, info.ports, info.first_port_url, info.icon_url,
      info.health>>

\* C29: for every container and host profile, format_container_info and
\* format_container_info_lightweight give the same id, name, image, status,
\* ports, first_port_url, icon_url and health.
C29_VariantsAgree ==
    (rec.full_done /\ rec.light_done)
        => C29_Shared(rec.full) = C29_Shared(rec.light)

-----------------------------------------------------------------------------
(* Claims about the dashboard totals (app_new.py index) *)

\* The number of records filed in the five buckets of a response.
C28_Filed(response) ==
    Len(response.containers_by_status["running"])
        + Len(response.containers_by_status["exited"])
        + Len(response.containers_by_status["created"])
        + Len(response.containers_by_status["paused"])
        + Len(response.containers_by_status["other"])

\* The dashboard's total_containers is the number of records in its buckets.
C28_TotalMatches ==
    index.response.view = "dashboard.html"
        => index.response.stats.total_containers = C28_Filed(index.response)

\* C28: on every rendered dashboard total_containers equals the sum of the
\* five bucket sizes and running_containers equals the size of the 'running'
\* bucket.
C28_TotalsMatchBuckets ==
    index.response.view = "dashboard.html"
        => /\ index.response.stats.total_containers = C28_Filed(index.response)
           /\ index.response.stats.running_containers
                 = Len(index.response.containers_by_status["running"])

-----------------------------------------------------------------------------
(* Claims about the host registry (docker_hosts.py, api_routes.py) *)

\* The profiles of a registry file.
Profiles(file) == DOMAIN file.hosts

\* The host id get_current_host_id returns in a given shared state.
CurrentOf(snapshot) ==
    IF snapshot.current_host_id # NoId THEN snapshot.current_host_id
    ELSE IF snapshot.session # NoId THEN snapshot.session
    ELSE snapshot.file.current_host

\* C21: after every sequence of add_host, update_host, delete_host and
\* switch_host from the default registry the registry holds at least one
\* profile, and a delete request for the only remaining profile is rejected
\* and leaves the registry unchanged.
C21_RegistryNeverEmpty ==
    /\ Profiles(docker_hosts_json) # {}
    /\ (/\ reg.op = "delete"
        /\ Profiles(reg.before.file) = {reg.arg})
          => /\ ~reg.ok
             /\ docker_hosts_json = reg.before.file

\* C21 witness: after a profile was added and deleted again, the delete of
\* the only profile left has been rejected.
C21_Witness ==
    /\ reg.op = "delete" /\ ~reg.ok
    /\ Profiles(reg.before.file) = {reg.arg}
    /\ reg.before.file.hosts["local"].host = MovedAddress

\* C22: a delete request for 'local' is rejected in every reachable registry
\* state, and 'local' stays in the registry with its configuration unchanged.
C22_LocalNotDeletable ==
    /\ "local" \in Profiles(docker_hosts_json)
    /\ (reg.op = "delete" /\ reg.arg = "local")
          => /\ ~reg.ok
             /\ docker_hosts_json.hosts["local"] = reg.before.file.hosts["local"]

\* C22 witness: the delete of 'local' was rejected while another profile is
\* registered and current.
C22_Witness ==
    /\ reg.op = "delete" /\ reg.arg = "local" /\ ~reg.ok
    /\ reg.before.file.current_host = "remote"
    /\ Profiles(docker_hosts_json) = {"local", "remote"}

\* C23: a delete request for the currently active profile fails and leaves
\* the registry, the current host id and the cached handle unchanged.
C23_CurrentNotDeletable ==
    (/\ reg.op = "delete"
     /\ reg.arg = CurrentOf(reg.before)
     /\ reg.arg \in Profiles(reg.before.file))
        => /\ ~reg.ok
           /\ docker_hosts_json = reg.before.file
           /\ current_host_id = reg.before.current_host_id
           /\ docker_client = reg.before.docker_client

\* C24: a switch to an id the registry does not hold is rejected as not
\* found, and the in-memory current host id, the persisted current_host and
\* the cached handle are unchanged by it.
C24_SwitchUnknownRejected ==
    (reg.op = "switch" /\ reg.arg \notin Profiles(reg.before.file))
        => /\ ~reg.ok
           /\ reg.message = "Host not found"
           /\ current_host_id = reg.before.current_host_id
           /\ session = reg.before.session
           /\ docker_hosts_json = reg.before.file
           /\ docker_client = reg.before.docker_client
           /\ cached_host_id = reg.before.cached_host_id

\* C24 witness: the switch to an unknown id was rejected while a handle for
\* the current host 'remote' was cached.
C24_Witness ==
    /\ reg.op = "switch" /\ reg.arg = "ghost" /\ ~reg.ok
    /\ reg.readable
    /\ docker_client # None /\ docker_client.host = "remote"
    /\ current_host_id = "remote"

\* The caller of test_docker_connection can take a step.
TestCallerCanMove ==
    ENABLED (test_tick \/ test_get_return \/ test_get_timeout)

\* C25: test_docker_connection leaves the handle cache, the cached host id,
\* the current host id and the registry unchanged whether it succeeds, fails
\* or times out; it waits no longer than its timeout and can then return; it
\* returns exactly one result, which is the time-out failure when the worker
\* has not answered.
C25_TestLeavesNoTrace ==
    /\ test.pc # "idle" => Snapshot = test.before
    /\ test.pc = "get" =>
          /\ test.waited <= TestTimeout
          /\ TestCallerCanMove
    /\ test.pc = "done" =>
          /\ Len(test.returned) = 1
          /\ test.worker = "running" =>
                test.returned[1] = [success |-> FALSE,
                                    error |-> "Connection test timed out"]
          /\ test.returned[1].success =>
                /\ test.worker = "done"
                /\ test.result_queue = <<>>

\* C25 witness: the test of another host than the cached one timed out with
\* the worker still connecting, and the cached handle is still in place.
C25_Witness ==
    /\ test.pc = "done" /\ test.worker = "running"
    /\ test.waited = TestTimeout
    /\ test.returned = <<[success |-> FALSE,
                          error |-> "Connection test timed out"]>>
    /\ docker_client # None /\ docker_client.host = "local"
    /\ test.host_id = "remote"

\* C26: after every sequence of add_host, update_host, delete_host and
\* switch_host the current host id get_current_host_id returns names a
\* profile of the registry and equals the persisted current_host.
C26_CurrentHostRegistered ==
    reg.op = "idle" =>
        /\ CurrentOf(Snapshot) \in Profiles(docker_hosts_json)
        /\ CurrentOf(Snapshot) = docker_hosts_json.current_host

\* C27: when writing the registry file fails, the operation returns failure
\* and the in-memory current host id and the handle cache are as before.
C27_SuccessMeansPersisted ==
    (reg.op # "idle" /\ ~reg.writable)
        => /\ ~reg.ok
           /\ current_host_id = reg.before.current_host_id
           /\ docker_client = reg.before.docker_client
           /\ cached_host_id = reg.before.cached_host_id

\* C30: a rejected add_host leaves the registry unchanged; a successful one
\* adds exactly the profile it names, with default = False, and every
\* profile stored before and current_host stay as they were.
C30_AddChangesOneProfile ==
    reg.op = "add" =>
        IF reg.ok
        THEN /\ reg.arg \notin Profiles(reg.before.file)
             /\ Profiles(docker_hosts_json)
                   = Profiles(reg.before.file) \cup {reg.arg}
             /\ docker_hosts_json.hosts[reg.arg].default = FALSE
             /\ \A h \in Profiles(reg.before.file) :
                   docker_hosts_json.hosts[h] = reg.before.file.hosts[h]
             /\ docker_hosts_json.current_host = reg.before.file.current_host
        ELSE docker_hosts_json = reg.before.file


====
